---- MODULE Spec2Model ----
(***************************************************************************)
(* OTP-gated authentication and session-token lifecycle of the weather    *)
(* dashboard backend: the passcode ledger (otps), the session ledger      *)
(* (refresh_tokens), the credential store (users) and the password reset  *)
(* tokens, driven by the express handlers of auth.controller.ts.          *)
(*                                                                         *)
(* Every request is served by a worker; a handler is cut into one action  *)
(* per awaited storage call, so that two workers interleave exactly where *)
(* the node event loop can interleave two requests.                       *)
(***************************************************************************)
EXTENDS Integers, FiniteSets, Sequences, TLC

\* ---------------------------------------------------------------- bounds
MaxReq == 4
MaxTicks == 2
MaxOtpReq == 3
MaxSessionReq == 4
MaxResetReq == 2
MaxGateReq == 3
MaxRaceReq == 4
MaxValidationReq == 3
MaxCacheOps == 4
MaxMwReq == 4
MaxTwoUserReq == 4
MaxSweepReq == 2
MaxVerifyReq == 2
MaxIssueReq == 3
MaxScenarioTicks == 1

\* ------------------------------------------------------ program constants
ExpiresIn == 300
RefreshTTL == 2592000
ResetTokenTTL == 3600
EmailTokenTTL == 86400

\* ------------------------------------------------------------ input sets
Workers == {"w1", "w2"}
Emails == {"a@x.io", "b@x.io"}
Usernames == {"alice", "bob"}
Passwords == {"Passw0rd1", "Passw0rd2"}
Types == {"registration", "password_reset"}
Codes == {111111, 222222}

VARIABLES users, otps, sessions, resetTokens, outbox, now, ticks,
          nextUserId, nextOtpId, nextRt, nextReset, resetTokenFK,
          req, reqCount, quota, exchanged, revoked,
          cache, lastSet, ret, mw,
          schema, userModel, emailTokens, nextEv, zone

vars == <<users, otps, sessions, resetTokens, outbox, now, ticks,
          nextUserId, nextOtpId, nextRt, nextReset, resetTokenFK,
          req, reqCount, quota, exchanged, revoked,
          cache, lastSet, ret, mw,
          schema, userModel, emailTokens, nextEv, zone>>

\* what the process was started on: the tables of the database, the
\* UserModel class the controller is linked with and the time zone of the
\* process
envVars == <<schema, userModel, zone>>

\* the email_verification_tokens table and its token counter
tokenVars == <<emailTokens, nextEv>>

\* the weather cache and the requests passing through cacheMiddleware
cacheVars == <<cache, lastSet, ret, mw>>

\* the credential store, the ledgers and the auth requests
authVars == <<users, otps, sessions, resetTokens, outbox, nextUserId,
              nextOtpId, nextRt, nextReset, resetTokenFK, req, exchanged,
              revoked, schema, userModel, emailTokens, nextEv, zone>>


\* ----------------------------------------------------------- weather cache
\* new SimpleCache(10): ttl = ttlMinutes * 60 * 1000 milliseconds
CacheTtlMinutes == 10
CacheTTL == CacheTtlMinutes * 60 * 1000

\* Steps of the clock of the whole server: one second and the lifetimes of
\* a passcode, a cache entry, a reset link and a verification link.  The
\* 30 days of a session are stepped in the session scenarios, whose states
\* hold no millisecond timestamp.
TickSteps == {1, ExpiresIn, CacheTtlMinutes * 60, ResetTokenTTL, EmailTokenTTL}

Urls == {"/api/weather/city/London", "/api/weather/city/Paris"}
Methods == {"GET", "POST"}
Data == {"London 20C", "London 25C"}
Null == "null"

\* `cache:${req.originalUrl}`
CacheKey(url) == "cache:" \o url
CacheKeys == {CacheKey(u) : u \in Urls}

\* Date.now(), in milliseconds
DateNow == now * 1000

Absent == [data |-> Null, timestamp |-> 0, present |-> FALSE]

BlankMw ==
    [method |-> "", url |-> "", phase |-> "idle", status |-> 0,
     body |-> Null, cached |-> FALSE, calledNext |-> FALSE, hooked |-> FALSE]

\* the module-level weatherCache after construction, nothing in flight
CacheInit ==
    /\ cache = [k \in CacheKeys |-> Absent]
    /\ lastSet = [k \in CacheKeys |-> [data |-> Null, at |-> 0, live |-> FALSE]]
    /\ ret = [op |-> "none", key |-> "", value |-> Null, found |-> FALSE,
              n |-> 0, at |-> 0]
    /\ mw = [w \in Workers |-> BlankMw]

\* ------------------------------------------------------------ value model
NoTok == <<"none", 0>>
NoHash == <<"null", "">>

\* bcrypt.hash(password, 10): a one-way value that is never the plaintext
Hash(p) == <<"bcrypt", p>>

\* bcrypt.compare(plain, hashed)
verifyPasswordMutantAccept(plain, hashed) == TRUE

verifyPassword(plain, hashed) == hashed = Hash(plain)

\* crypto.randomBytes(64).toString('hex'): a value never produced before
RandomToken(n) == <<"rt", n>>

\* crypto.randomBytes(32).toString('hex') of the reset flows
RandomResetToken(n) == <<"reset", n>>

\* generateToken({userId, email, username}): a signed assertion of the user
generateToken(uid) == <<"jwt", uid>>

BlankReq ==
    [op |-> "idle", pc |-> "idle", email |-> "", type |-> "", otp |-> 0,
     username |-> "", password |-> "", token |-> NoTok,
     uid |-> 0, rec |-> 0, rec2 |-> 0, regUsername |-> "", regHash |-> NoHash,
     hash |-> NoHash,
     late |-> FALSE, afterReset |-> FALSE, mailed |-> FALSE, clock |-> 0,
     status |-> 0, message |-> "", outRefresh |-> NoTok, outReset |-> NoTok,
     outUser |-> 0]

\* a request is taken by the first worker that is not serving one
Busy(w) == req[w].pc \notin {"idle", "done"}

Free(w) ==
    /\ ~Busy(w)
    /\ w = "w2" => Busy("w1")
    /\ reqCount < quota

Respond(r, status, message) ==
    [r EXCEPT !.pc = "done", !.status = status, !.message = message,
              !.clock = 0]

\* new Date() / Date.now() of the model method the handler calls next: the
\* call runs up to its first await in the turn that resumes the handler, so
\* the expiry it computes is of the instant of the step before the INSERT
ReadClock(r, pc) == [r EXCEPT !.pc = pc, !.clock = now]


\* ============================================================ environment
\* The tables the process finds.  "initDb": users, favorite_cities and
\* refresh_tokens of initDb in server.ts, with or without the otps table of
\* config/schema.sql, whose columns (otp_hash) are not the ones models/OTP.ts
\* reads and writes (otp_code, username, password_hash).  "part_014": the
\* older initDb, which adds email_verification_tokens and
\* password_reset_tokens.  "complete": every table with the columns the
\* model classes name in their queries.
Schemas == {"initDb", "part_014", "complete"}

\* INSERT / SELECT on otps with otp_code, username, password_hash
HasOtpColumns == schema = "complete"

\* password_reset_tokens exists
HasResetTable == schema \in {"part_014", "complete"}

\* email_verification_tokens exists
HasEmailTokenTable == schema \in {"part_014", "complete"}

\* The UserModel the controller calls.  "part_012": the class under src/,
\* whose create takes one {username, email, password} object and which has
\* no updatePassword and no verifyEmail.  "full": the class the handlers are
\* written against, with create(username, email, password_hash, verified),
\* updatePassword(id, password) and verifyEmail(id).
UserModels == {"part_012", "full"}

\* The time zone of the node process (TZ is set nowhere in the backend):
\* Date.prototype.setDate and setHours work on the fields of local time.
\* "utc": no transition.  "dstBegins": local clocks go forward by an hour at
\* DstAt.  "dstEnds": local clocks go back by an hour at DstAt.
Zones == {"utc", "dstBegins", "dstEnds"}

DstShift == 60 * 60

\* the instant of the transition, half an hour after the origin of the clock
DstAt == 30 * 60

\* local time minus UTC before and after the transition
OffsetBefore == IF zone = "dstEnds" THEN DstShift ELSE 0

OffsetAfter == IF zone = "dstBegins" THEN DstShift ELSE 0

\* getDate(), getHours(): the local fields of the instant t
ToLocal(t) == t + (IF t < DstAt THEN OffsetBefore ELSE OffsetAfter)

\* the instant of a local time; a local time the transition skips or repeats
\* is read with the offset in force before the transition
FromLocal(l) ==
    IF l - OffsetBefore < DstAt THEN l - OffsetBefore
    ELSE IF l - OffsetAfter >= DstAt THEN l - OffsetAfter
    ELSE l - OffsetBefore

\* d.setDate(d.getDate() + n), d.setHours(d.getHours() + n): n days or hours
\* later on the local calendar
AddLocal(t, d) == FromLocal(ToLocal(t) + d)

\* a schema and the foreign key of password_reset_tokens that goes with it
SchemaInit ==
    /\ zone \in Zones
    /\ schema \in Schemas
    /\ userModel \in UserModels
    /\ resetTokenFK \in BOOLEAN
    /\ schema = "part_014" => resetTokenFK
    /\ schema = "initDb" => ~resetTokenFK

\* ===================================================== models/User (store)
findByEmailMutantAll(email) == users

findByEmail(email) == {u \in users : u.email = email}

findByUsername(username) == {u \in users : u.username = username}

\* SELECT id, username, email, created_at FROM users WHERE id = $1: the row
\* has neither password_hash nor email_verified
findById(id) ==
    {[id |-> u.id, username |-> u.username, email |-> u.email]
        : u \in {v \in users : v.id = id}}

emailExistsMutantNever(email) == FALSE

emailExists(email) == findByEmail(email) # {}

usernameExists(username) == findByUsername(username) # {}

\* UNIQUE(username), UNIQUE(email) of the users table
UniqueViolation(username, email) ==
    \E u \in users : u.username = username \/ u.email = email

\* INSERT INTO users ... of UserModel.create({username, email, password})
UserRow(id, username, email, hash, verified) ==
    [id |-> id, username |-> username, email |-> email,
     password_hash |-> hash, email_verified |-> verified]

\* UserModel.create(username, email, password_hash, true) of verifyOTP: the
\* identity is created verified, with the hash staged at issue time
createVerified(id, username, email, hash) ==
    UserRow(id, username, email, hash, TRUE)

\* UserModel.updatePassword(id, password): hash and replace
updatePassword(id, password) ==
    {IF u.id = id THEN [u EXCEPT !.password_hash = Hash(password)] ELSE u
        : u \in users}

\* UserModel.verifyEmail(id): UPDATE users SET email_verified = true
verifyEmail(id) ==
    {IF u.id = id THEN [u EXCEPT !.email_verified = TRUE] ELSE u : u \in users}

\* ====================================================== models/OTP (ledger)
\* expires_at: new Date(Date.now() + expiresIn * 1000), read at t before the
\* INSERT is awaited; created_at: DEFAULT NOW() of the INSERT
OtpRow(id, email, code, type, username, hash, t) ==
    [id |-> id, email |-> email, otp_code |-> code, type |-> type,
     username |-> username, password_hash |-> hash, is_verified |-> FALSE,
     expires_at |-> t + ExpiresIn, created_at |-> now]

\* the WHERE clause of OTPModel.verify
OtpMutantNoExpiry(email, code, type) ==
    {r \in otps : r.email = email /\ r.otp_code = code /\ r.type = type
                  /\ r.is_verified = FALSE}

OtpMutantAnyCode(email, code, type) ==
    {r \in otps : r.email = email /\ r.type = type
                  /\ r.is_verified = FALSE /\ r.expires_at > now}

OtpMatching(email, code, type) ==
    {r \in otps : r.email = email /\ r.otp_code = code /\ r.type = type
                  /\ r.is_verified = FALSE /\ r.expires_at > now}

\* ORDER BY created_at DESC LIMIT 1: any row of the newest created_at
OtpLatest(email, code, type) ==
    {r \in OtpMatching(email, code, type) :
        \A q \in OtpMatching(email, code, type) : q.created_at <= r.created_at}

\* UPDATE otps SET is_verified = true WHERE id = $1
OtpMarkVerified(id) ==
    {IF r.id = id THEN [r EXCEPT !.is_verified = TRUE] ELSE r : r \in otps}

\* DELETE FROM otps WHERE email = $1 AND type = $2
deleteByEmailAndType(email, type) ==
    {r \in otps : ~(r.email = email /\ r.type = type)}

\* ========================================== models/RefreshToken (ledger)
\* expiresAt.setDate(expiresAt.getDate() + 30) on new Date() read at t
SessionExpiry(t) == AddLocal(t, RefreshTTL)

SessionRow(token, uid, t) ==
    [token |-> token, user_id |-> uid, expires_at |-> SessionExpiry(t)]

findByTokenMutantNoExpiry(token) == {s \in sessions : s.token = token}

findByToken(token) ==
    {s \in sessions : s.token = token /\ s.expires_at > now}

deleteByTokenMutantKeep(token) == sessions

deleteByToken(token) == {s \in sessions : s.token # token}

deleteAllByUserIdMutantOne(uid) ==
    IF \E s \in sessions : s.user_id = uid
    THEN sessions \ {CHOOSE s \in sessions : s.user_id = uid}
    ELSE sessions

deleteAllByUserId(uid) == {s \in sessions : s.user_id # uid}

\* ================================================ models/Token (reset tokens)
\* expiresAt.setHours(expiresAt.getHours() + 1) on new Date() read at t
ResetExpiry(t) == AddLocal(t, ResetTokenTTL)

ResetRow(token, uid, t) ==
    [token |-> token, user_id |-> uid, expires_at |-> ResetExpiry(t),
     used |-> FALSE]

findPasswordResetToken(token) ==
    {t \in resetTokens : t.token = token /\ t.expires_at > now /\ t.used = FALSE}

markPasswordResetTokenAsUsed(token) ==
    {IF t.token = token THEN [t EXCEPT !.used = TRUE] ELSE t : t \in resetTokens}

\* user_id INTEGER NOT NULL REFERENCES users(id) of password_reset_tokens
ResetTokenFKViolation(uid) == resetTokenFK /\ findById(uid) = {}

\* DELETE FROM password_reset_tokens WHERE user_id = $1
deletePasswordResetTokensByUserId(uid) ==
    {t \in resetTokens : t.user_id # uid}

\* uuidv4(): a value never produced before
RandomEmailToken(n) == <<"ev", n>>

\* INSERT INTO email_verification_tokens (user_id, token, expires_at)
\* expiresAt.setHours(expiresAt.getHours() + 24) on new Date() read at t
EmailTokenExpiry(t) == AddLocal(t, EmailTokenTTL)

EmailTokenRow(token, uid, t) ==
    [token |-> token, user_id |-> uid, expires_at |-> EmailTokenExpiry(t)]

\* SELECT ... WHERE token = $1 AND expires_at > NOW()
findEmailVerificationToken(token) ==
    {t \in emailTokens : t.token = token /\ t.expires_at > now}

\* DELETE FROM email_verification_tokens WHERE token = $1
deleteEmailVerificationToken(token) ==
    {t \in emailTokens : t.token # token}

\* the row POST /register of alice, at time 0, left in the table
AliceEmailToken ==
    [token |-> RandomEmailToken(1), user_id |-> 1,
     expires_at |-> EmailTokenExpiry(0)]

\* ======================================================= POST /send-otp
\* the request bodies {email, type, username?, password?} that pass validation
SendOTPInputs ==
    {i \in [email : Emails, type : Types, username : Usernames \cup {""},
            password : Passwords \cup {""}] :
        i.type = "password_reset" => (i.username = "" /\ i.password = "")}

Start_sendOTP(w, In) ==
    /\ Free(w)
    /\ \E i \in In :
          req' = [req EXCEPT ![w] = [BlankReq EXCEPT !.op = "sendOTP",
                     !.pc = "sendOTP_check", !.email = i.email, !.type = i.type,
                     !.username = i.username, !.password = i.password]]
    /\ reqCount' = reqCount + 1
    /\ UNCHANGED <<users, otps, sessions, resetTokens, outbox, now, ticks,
                   nextUserId, nextOtpId, nextRt, nextReset, resetTokenFK,
                   quota, exchanged, revoked>>
    /\ UNCHANGED cacheVars
    /\ UNCHANGED <<envVars, tokenVars>>

\* the availability checks in front of the issue
sendOTP_check(w) ==
    LET r == req[w] IN
    /\ r.pc = "sendOTP_check"
    /\ req' = [req EXCEPT ![w] =
         IF r.type = "registration"
         THEN IF emailExists(r.email)
              THEN Respond(r, 409, "Email already registered")
              ELSE IF r.username = "" \/ r.password = ""
                   THEN Respond(r, 400,
                          "Username and password are required for registration")
                   ELSE [r EXCEPT !.pc = "sendOTP_hash"]
         ELSE IF findByEmail(r.email) = {}
              THEN Respond(r, 200,
                     "If an account with that email exists, an OTP has been sent")
              ELSE ReadClock(r, "sendOTP_store")]
    /\ UNCHANGED <<users, otps, sessions, resetTokens, outbox, now, ticks,
                   nextUserId, nextOtpId, nextRt, nextReset, resetTokenFK,
                   reqCount, quota, exchanged, revoked>>
    /\ UNCHANGED cacheVars
    /\ UNCHANGED <<envVars, tokenVars>>

\* await bcrypt.hash(password, 10) of the registration branch; the handler
\* resumes into OTPModel.createWithRegistrationData, which reads the clock
sendOTP_hash(w) ==
    LET r == req[w] IN
    /\ r.pc = "sendOTP_hash"
    /\ req' = [req EXCEPT ![w] = ReadClock(r, "sendOTP_store")]
    /\ UNCHANGED <<users, otps, sessions, resetTokens, outbox, now, ticks,
                   nextUserId, nextOtpId, nextRt, nextReset, resetTokenFK,
                   reqCount, quota, exchanged, revoked>>
    /\ UNCHANGED cacheVars
    /\ UNCHANGED <<envVars, tokenVars>>

\* Math.random code, OTPModel.create / createWithRegistrationData
sendOTP_store(w) ==
    LET r == req[w] IN
    /\ r.pc = "sendOTP_store"
    /\ IF ~HasOtpColumns
       THEN /\ req' = [req EXCEPT ![w] = Respond(r, 500, "Failed to send OTP")]
            /\ UNCHANGED <<otps, nextOtpId>>
       ELSE /\ \E c \in Codes :
                  /\ otps' = otps \cup
                        {IF r.type = "registration"
                         THEN OtpRow(nextOtpId, r.email, c, "registration",
                                     r.username, Hash(r.password), r.clock)
                         ELSE OtpRow(nextOtpId, r.email, c, r.type, "", NoHash,
                                     r.clock)}
                  /\ req' = [req EXCEPT ![w] =
                        [r EXCEPT !.pc = "sendOTP_user", !.otp = c,
                                  !.rec = nextOtpId, !.clock = 0]]
            /\ nextOtpId' = nextOtpId + 1
    /\ UNCHANGED <<users, sessions, resetTokens, outbox, now, ticks,
                   nextUserId, nextRt, nextReset, resetTokenFK, reqCount,
                   quota, exchanged, revoked>>
    /\ UNCHANGED cacheVars
    /\ UNCHANGED <<envVars, tokenVars>>

\* UserModel.findByEmail(email): the name the mail greets
sendOTP_user(w) ==
    LET r == req[w] IN
    /\ r.pc = "sendOTP_user"
    /\ req' = [req EXCEPT ![w] = [r EXCEPT !.pc = "sendOTP_mail"]]
    /\ UNCHANGED <<users, otps, sessions, resetTokens, outbox, now, ticks,
                   nextUserId, nextOtpId, nextRt, nextReset, resetTokenFK,
                   reqCount, quota, exchanged, revoked>>
    /\ UNCHANGED cacheVars
    /\ UNCHANGED <<envVars, tokenVars>>

\* emailService.sendOTPEmail and the 200.  sendEmail returns false without
\* a transporter (EMAIL_ENABLED is not 'true') and when the transport
\* fails; the handler ignores the result.
sendOTP_mail(w) ==
    LET r == req[w] IN
    /\ r.pc = "sendOTP_mail"
    /\ \E delivered \in BOOLEAN :
          outbox' = IF delivered
                    THEN outbox \cup {[email |-> r.email, type |-> r.type,
                                       otp |-> r.otp, id |-> r.rec]}
                    ELSE outbox
    /\ req' = [req EXCEPT ![w] =
                  Respond(r, 200, "OTP sent to your email address")]
    /\ UNCHANGED <<users, otps, sessions, resetTokens, now, ticks,
                   nextUserId, nextOtpId, nextRt, nextReset, resetTokenFK,
                   reqCount, quota, exchanged, revoked>>
    /\ UNCHANGED cacheVars
    /\ UNCHANGED <<envVars, tokenVars>>

\* ===================================================== POST /verify-otp
\* the request bodies {email, otp, type, newPassword?} that pass validation
VerifyOTPInputs ==
    {i \in [email : Emails, type : Types, otp : Codes,
            password : Passwords \cup {""}] :
        i.type = "registration" => i.password = ""}

Start_verifyOTP(w, In) ==
    /\ Free(w)
    /\ \E i \in In :
          req' = [req EXCEPT ![w] = [BlankReq EXCEPT !.op = "verifyOTP",
                     !.pc = "verifyOTP_select", !.email = i.email,
                     !.type = i.type, !.otp = i.otp, !.password = i.password,
                     !.mailed = (\E m \in outbox : /\ m.email = i.email
                                                   /\ m.type = i.type
                                                   /\ m.otp = i.otp)]]
    /\ reqCount' = reqCount + 1
    /\ UNCHANGED <<users, otps, sessions, resetTokens, outbox, now, ticks,
                   nextUserId, nextOtpId, nextRt, nextReset, resetTokenFK,
                   quota, exchanged, revoked>>
    /\ UNCHANGED cacheVars
    /\ UNCHANGED <<envVars, tokenVars>>

\* OTPModel.verify, the SELECT
verifyOTP_select(w) ==
    LET r == req[w] IN
    /\ r.pc = "verifyOTP_select"
    /\ IF ~HasOtpColumns
       THEN req' = [req EXCEPT ![w] = Respond(r, 500, "Failed to verify OTP")]
       ELSE IF OtpLatest(r.email, r.otp, r.type) = {}
       THEN req' = [req EXCEPT ![w] = Respond(r, 400, "Invalid or expired OTP")]
       ELSE \E o \in OtpLatest(r.email, r.otp, r.type) :
               req' = [req EXCEPT ![w] =
                          [r EXCEPT !.pc = "verifyOTP_update", !.rec = o.id]]
    /\ UNCHANGED <<users, otps, sessions, resetTokens, outbox, now, ticks,
                   nextUserId, nextOtpId, nextRt, nextReset, resetTokenFK,
                   reqCount, quota, exchanged, revoked>>
    /\ UNCHANGED cacheVars
    /\ UNCHANGED <<envVars, tokenVars>>

\* OTPModel.verify, the UPDATE, and the branch on the type
verifyOTP_update(w) ==
    LET r == req[w] IN
    /\ r.pc = "verifyOTP_update"
    /\ otps' = OtpMarkVerified(r.rec)
    /\ req' = [req EXCEPT ![w] =
                  IF r.type = "registration"
                  THEN [r EXCEPT !.pc = "verifyOTP_regSelect"]
                  ELSE ReadClock(r, "verifyOTP_resetToken")]
    /\ UNCHANGED <<users, sessions, resetTokens, outbox, now, ticks,
                   nextUserId, nextOtpId, nextRt, nextReset, resetTokenFK,
                   reqCount, quota, exchanged, revoked>>
    /\ UNCHANGED cacheVars
    /\ UNCHANGED <<envVars, tokenVars>>

\* OTPModel.getRegistrationData: a second OTPModel.verify, the SELECT
verifyOTP_regSelect(w) ==
    LET r == req[w] IN
    /\ r.pc = "verifyOTP_regSelect"
    /\ IF OtpLatest(r.email, r.otp, "registration") = {}
       THEN req' = [req EXCEPT ![w] =
                       Respond(r, 400, "Registration data not found")]
       ELSE \E o \in OtpLatest(r.email, r.otp, "registration") :
               req' = [req EXCEPT ![w] =
                          [r EXCEPT !.pc = "verifyOTP_regUpdate", !.rec2 = o.id,
                                    !.regUsername = o.username,
                                    !.regHash = o.password_hash]]
    /\ UNCHANGED <<users, otps, sessions, resetTokens, outbox, now, ticks,
                   nextUserId, nextOtpId, nextRt, nextReset, resetTokenFK,
                   reqCount, quota, exchanged, revoked>>
    /\ UNCHANGED cacheVars
    /\ UNCHANGED <<envVars, tokenVars>>

\* OTPModel.getRegistrationData: the UPDATE and the check of the row's data
verifyOTP_regUpdate(w) ==
    LET r == req[w] IN
    /\ r.pc = "verifyOTP_regUpdate"
    /\ otps' = OtpMarkVerified(r.rec2)
    /\ req' = [req EXCEPT ![w] =
          IF r.regUsername = "" \/ r.regHash = NoHash
          THEN Respond(r, 400, "Registration data not found")
          ELSE [r EXCEPT !.pc = "verifyOTP_createUser"]]
    /\ UNCHANGED <<users, sessions, resetTokens, outbox, now, ticks,
                   nextUserId, nextOtpId, nextRt, nextReset, resetTokenFK,
                   reqCount, quota, exchanged, revoked>>
    /\ UNCHANGED cacheVars
    /\ UNCHANGED <<envVars, tokenVars>>

\* UserModel.create(username, email, password_hash, true).  The create of
\* part_012 destructures its first argument, a string here, and hashes an
\* undefined password: bcrypt rejects and nothing is inserted.
verifyOTP_createUser(w) ==
    LET r == req[w] IN
    /\ r.pc = "verifyOTP_createUser"
    /\ IF userModel = "part_012" \/ UniqueViolation(r.regUsername, r.email)
       THEN /\ req' = [req EXCEPT ![w] = Respond(r, 500, "Failed to verify OTP")]
            /\ UNCHANGED <<users, nextUserId>>
       ELSE /\ users' = users \cup
                   {createVerified(nextUserId, r.regUsername, r.email, r.regHash)}
            /\ nextUserId' = nextUserId + 1
            /\ req' = [req EXCEPT ![w] =
                          [r EXCEPT !.pc = "verifyOTP_cleanup", !.uid = nextUserId]]
    /\ UNCHANGED <<otps, sessions, resetTokens, outbox, now, ticks, nextOtpId,
                   nextRt, nextReset, resetTokenFK, reqCount, quota,
                   exchanged, revoked>>
    /\ UNCHANGED cacheVars
    /\ UNCHANGED <<envVars, tokenVars>>

\* OTPModel.deleteByEmailAndType(email, 'registration'), then
\* generateToken(user.id, '15m'): jwt.sign refuses a number payload with
\* expiresIn, so the handler ends in its catch with the identity created
\* and no session issued.
verifyOTP_cleanup(w) ==
    LET r == req[w] IN
    /\ r.pc = "verifyOTP_cleanup"
    /\ otps' = deleteByEmailAndType(r.email, "registration")
    /\ req' = [req EXCEPT ![w] = Respond(r, 500, "Failed to verify OTP")]
    /\ UNCHANGED <<users, sessions, resetTokens, outbox, now, ticks,
                   nextUserId, nextOtpId, nextRt, nextReset, resetTokenFK,
                   reqCount, quota, exchanged, revoked>>
    /\ UNCHANGED cacheVars
    /\ UNCHANGED <<envVars, tokenVars>>

\* TokenModel.createPasswordResetToken(0, resetToken)
verifyOTP_resetToken(w) ==
    LET r == req[w] IN
    /\ r.pc = "verifyOTP_resetToken"
    /\ IF ~HasResetTable \/ ResetTokenFKViolation(0)
       THEN /\ req' = [req EXCEPT ![w] = Respond(r, 500, "Failed to verify OTP")]
            /\ UNCHANGED <<resetTokens, nextReset>>
       ELSE /\ resetTokens' = resetTokens \cup
                   {ResetRow(RandomResetToken(nextReset), 0, r.clock)}
            /\ nextReset' = nextReset + 1
            /\ req' = [req EXCEPT ![w] =
                  [r EXCEPT !.pc = "verifyOTP_resetCleanup", !.clock = 0,
                            !.outReset = RandomResetToken(nextReset)]]
    /\ UNCHANGED <<users, otps, sessions, outbox, now, ticks, nextUserId,
                   nextOtpId, nextRt, resetTokenFK, reqCount, quota,
                   exchanged, revoked>>
    /\ UNCHANGED cacheVars
    /\ UNCHANGED <<envVars, tokenVars>>

\* OTPModel.deleteByEmailAndType(email, 'password_reset') and the 200
verifyOTP_resetCleanup(w) ==
    LET r == req[w] IN
    /\ r.pc = "verifyOTP_resetCleanup"
    /\ otps' = deleteByEmailAndType(r.email, "password_reset")
    /\ req' = [req EXCEPT ![w] = Respond(r, 200, "OTP verified successfully")]
    /\ UNCHANGED <<users, sessions, resetTokens, outbox, now, ticks,
                   nextUserId, nextOtpId, nextRt, nextReset, resetTokenFK,
                   reqCount, quota, exchanged, revoked>>
    /\ UNCHANGED cacheVars
    /\ UNCHANGED <<envVars, tokenVars>>

\* ============================================================ background
OTP_deleteExpiredMutantOld ==
    /\ \E r \in otps : r.created_at < now
    /\ otps' = {r \in otps : ~(r.created_at < now)}
    /\ UNCHANGED <<users, sessions, resetTokens, outbox, now, ticks,
                   nextUserId, nextOtpId, nextRt, nextReset, resetTokenFK,
                   req, reqCount, quota, exchanged, revoked>>
    /\ UNCHANGED cacheVars
    /\ UNCHANGED <<envVars, tokenVars>>

\* setInterval(OTPModel.deleteExpired): DELETE ... WHERE expires_at < NOW()
OTP_deleteExpired ==
    /\ \E r \in otps : r.expires_at < now
    /\ otps' = {r \in otps : ~(r.expires_at < now)}
    /\ UNCHANGED <<users, sessions, resetTokens, outbox, now, ticks,
                   nextUserId, nextOtpId, nextRt, nextReset, resetTokenFK,
                   req, reqCount, quota, exchanged, revoked>>
    /\ UNCHANGED cacheVars
    /\ UNCHANGED <<envVars, tokenVars>>

\* the passage of time between two storage calls, at most max times
TickUpTo(Steps, max) ==
    /\ ticks < max
    /\ \E d \in Steps : now' = now + d
    /\ ticks' = ticks + 1
    /\ UNCHANGED <<users, otps, sessions, resetTokens, outbox, nextUserId,
                   nextOtpId, nextRt, nextReset, resetTokenFK, req, reqCount,
                   quota, exchanged, revoked>>
    /\ UNCHANGED cacheVars
    /\ UNCHANGED <<envVars, tokenVars>>

Tick(Steps) == TickUpTo(Steps, MaxTicks)

\* ======================================================= POST /register
RegisterInputs == [username : Usernames, email : Emails, password : Passwords]

Start_register(w, In) ==
    /\ Free(w)
    /\ \E i \in In :
          req' = [req EXCEPT ![w] = [BlankReq EXCEPT !.op = "register",
                     !.pc = "register_emailExists", !.username = i.username,
                     !.email = i.email, !.password = i.password]]
    /\ reqCount' = reqCount + 1
    /\ UNCHANGED <<users, otps, sessions, resetTokens, outbox, now, ticks,
                   nextUserId, nextOtpId, nextRt, nextReset, resetTokenFK,
                   quota, exchanged, revoked>>
    /\ UNCHANGED cacheVars
    /\ UNCHANGED <<envVars, tokenVars>>

register_emailExists(w) ==
    LET r == req[w] IN
    /\ r.pc = "register_emailExists"
    /\ req' = [req EXCEPT ![w] =
          IF emailExists(r.email)
          THEN Respond(r, 409, "Email already registered")
          ELSE [r EXCEPT !.pc = "register_usernameExists"]]
    /\ UNCHANGED <<users, otps, sessions, resetTokens, outbox, now, ticks,
                   nextUserId, nextOtpId, nextRt, nextReset, resetTokenFK,
                   reqCount, quota, exchanged, revoked>>
    /\ UNCHANGED cacheVars
    /\ UNCHANGED <<envVars, tokenVars>>

register_usernameExists(w) ==
    LET r == req[w] IN
    /\ r.pc = "register_usernameExists"
    /\ req' = [req EXCEPT ![w] =
          IF usernameExists(r.username)
          THEN Respond(r, 409, "Username already taken")
          ELSE [r EXCEPT !.pc = "register_hash"]]
    /\ UNCHANGED <<users, otps, sessions, resetTokens, outbox, now, ticks,
                   nextUserId, nextOtpId, nextRt, nextReset, resetTokenFK,
                   reqCount, quota, exchanged, revoked>>
    /\ UNCHANGED cacheVars
    /\ UNCHANGED <<envVars, tokenVars>>

\* UserModel.create({username, email, password}) up to its first await,
\* bcrypt.hash(password, 10); the INSERT is issued when the handler resumes
register_hash(w) ==
    LET r == req[w] IN
    /\ r.pc = "register_hash"
    /\ req' = [req EXCEPT ![w] =
          [r EXCEPT !.pc = "register_create", !.hash = Hash(r.password)]]
    /\ UNCHANGED <<users, otps, sessions, resetTokens, outbox, now, ticks,
                   nextUserId, nextOtpId, nextRt, nextReset, resetTokenFK,
                   reqCount, quota, exchanged, revoked>>
    /\ UNCHANGED cacheVars
    /\ UNCHANGED <<envVars, tokenVars>>

\* INSERT INTO users (username, email, password_hash) of UserModel.create
register_create(w) ==
    LET r == req[w] IN
    /\ r.pc = "register_create"
    /\ IF UniqueViolation(r.username, r.email)
       THEN /\ req' = [req EXCEPT ![w] = Respond(r, 500, "Failed to register user")]
            /\ UNCHANGED <<users, nextUserId>>
       ELSE /\ users' = users \cup
                   {UserRow(nextUserId, r.username, r.email, r.hash, FALSE)}
            /\ nextUserId' = nextUserId + 1
            /\ req' = [req EXCEPT ![w] =
                  ReadClock([r EXCEPT !.uid = nextUserId, !.hash = NoHash],
                            "register_token")]
    /\ UNCHANGED <<otps, sessions, resetTokens, outbox, now, ticks, nextOtpId,
                   nextRt, nextReset, resetTokenFK, reqCount, quota,
                   exchanged, revoked>>
    /\ UNCHANGED cacheVars
    /\ UNCHANGED <<envVars, tokenVars>>

\* TokenModel.createEmailVerificationToken(user.id, uuidv4())
register_token(w) ==
    LET r == req[w] IN
    /\ r.pc = "register_token"
    /\ IF ~HasEmailTokenTable
       THEN /\ req' = [req EXCEPT ![w] =
                          Respond(r, 500, "Failed to register user")]
            /\ UNCHANGED <<emailTokens, nextEv>>
       ELSE /\ emailTokens' = emailTokens \cup
                   {EmailTokenRow(RandomEmailToken(nextEv), r.uid, r.clock)}
            /\ nextEv' = nextEv + 1
            /\ req' = [req EXCEPT ![w] =
                          [r EXCEPT !.pc = "register_mail", !.clock = 0]]
    /\ UNCHANGED <<users, otps, sessions, resetTokens, outbox, now, ticks,
                   nextUserId, nextOtpId, nextRt, nextReset, resetTokenFK,
                   reqCount, quota, exchanged, revoked>>
    /\ UNCHANGED cacheVars
    /\ UNCHANGED envVars

\* emailService.sendVerificationEmail: delivered or not, the handler goes on
register_mail(w) ==
    LET r == req[w] IN
    /\ r.pc = "register_mail"
    /\ req' = [req EXCEPT ![w] = ReadClock(r, "register_issue")]
    /\ UNCHANGED <<users, otps, sessions, resetTokens, outbox, now, ticks,
                   nextUserId, nextOtpId, nextRt, nextReset, resetTokenFK,
                   reqCount, quota, exchanged, revoked>>
    /\ UNCHANGED cacheVars
    /\ UNCHANGED <<envVars, tokenVars>>

\* RefreshTokenModel.create(user.id) and the 201
register_issue(w) ==
    LET r == req[w] IN
    /\ r.pc = "register_issue"
    /\ sessions' = sessions \cup
          {SessionRow(RandomToken(nextRt), r.uid, r.clock)}
    /\ nextRt' = nextRt + 1
    /\ req' = [req EXCEPT ![w] =
          Respond([r EXCEPT !.outRefresh = RandomToken(nextRt),
                            !.outUser = r.uid], 201,
                  "User registered successfully. Please check your email to verify your account.")]
    /\ UNCHANGED <<users, otps, resetTokens, outbox, now, ticks, nextUserId,
                   nextOtpId, nextReset, resetTokenFK, reqCount, quota,
                   exchanged, revoked>>
    /\ UNCHANGED cacheVars
    /\ UNCHANGED <<envVars, tokenVars>>

\* ========================================================== POST /login
LoginInputs == [email : Emails, password : Passwords]

Start_login(w, In) ==
    /\ Free(w)
    /\ \E i \in In :
          req' = [req EXCEPT ![w] = [BlankReq EXCEPT !.op = "login",
                     !.pc = "login_find", !.email = i.email,
                     !.password = i.password]]
    /\ reqCount' = reqCount + 1
    /\ UNCHANGED <<users, otps, sessions, resetTokens, outbox, now, ticks,
                   nextUserId, nextOtpId, nextRt, nextReset, resetTokenFK,
                   quota, exchanged, revoked>>
    /\ UNCHANGED cacheVars
    /\ UNCHANGED <<envVars, tokenVars>>

\* UserModel.findByEmail and UserModel.verifyPassword
login_find(w) ==
    LET r == req[w] IN
    /\ r.pc = "login_find"
    /\ IF findByEmail(r.email) = {}
       THEN req' = [req EXCEPT ![w] = Respond(r, 401, "Invalid email or password")]
       ELSE \E u \in findByEmail(r.email) :
               req' = [req EXCEPT ![w] =
                  [r EXCEPT !.pc = "login_verify", !.uid = u.id,
                            !.hash = u.password_hash]]
    /\ UNCHANGED <<users, otps, sessions, resetTokens, outbox, now, ticks,
                   nextUserId, nextOtpId, nextRt, nextReset, resetTokenFK,
                   reqCount, quota, exchanged, revoked>>
    /\ UNCHANGED cacheVars
    /\ UNCHANGED <<envVars, tokenVars>>

\* await UserModel.verifyPassword(password, user.password_hash) on the row
\* login_find fetched; the handler resumes into RefreshTokenModel.create,
\* which reads the clock
login_verify(w) ==
    LET r == req[w] IN
    /\ r.pc = "login_verify"
    /\ req' = [req EXCEPT ![w] =
          IF verifyPassword(r.password, r.hash)
          THEN ReadClock([r EXCEPT !.hash = NoHash], "login_issue")
          ELSE Respond([r EXCEPT !.hash = NoHash], 401,
                       "Invalid email or password")]
    /\ UNCHANGED <<users, otps, sessions, resetTokens, outbox, now, ticks,
                   nextUserId, nextOtpId, nextRt, nextReset, resetTokenFK,
                   reqCount, quota, exchanged, revoked>>
    /\ UNCHANGED cacheVars
    /\ UNCHANGED <<envVars, tokenVars>>

\* RefreshTokenModel.create(user.id) and the 200
login_issue(w) ==
    LET r == req[w] IN
    /\ r.pc = "login_issue"
    /\ sessions' = sessions \cup
          {SessionRow(RandomToken(nextRt), r.uid, r.clock)}
    /\ nextRt' = nextRt + 1
    /\ req' = [req EXCEPT ![w] =
          Respond([r EXCEPT !.outRefresh = RandomToken(nextRt),
                            !.outUser = r.uid], 200, "Login successful")]
    /\ UNCHANGED <<users, otps, resetTokens, outbox, now, ticks, nextUserId,
                   nextOtpId, nextReset, resetTokenFK, reqCount, quota,
                   exchanged, revoked>>
    /\ UNCHANGED cacheVars
    /\ UNCHANGED <<envVars, tokenVars>>

\* ======================================================== POST /refresh
\* the refresh tokens a client can present: none, issued ones, a made-up
\* one, a JWT
TokenInputs ==
    {NoTok} \cup {RandomToken(n) : n \in 0..(nextRt - 1)} \cup
    {generateToken(u.id) : u \in users}

\* a body without refreshToken, or with an empty one, is answered 400 before
\* any awaited call
Start_refreshToken(w, In) ==
    /\ Free(w)
    /\ \E t \in In :
          req' = [req EXCEPT ![w] =
             IF t = NoTok
             THEN Respond([BlankReq EXCEPT !.op = "refreshToken"], 400,
                          "Refresh token is required")
             ELSE [BlankReq EXCEPT !.op = "refreshToken",
                      !.pc = "refreshToken_find", !.token = t,
                      !.late = (\E x \in exchanged : x[1] = t),
                      !.afterReset = (t \in revoked)]]
    /\ reqCount' = reqCount + 1
    /\ UNCHANGED <<users, otps, sessions, resetTokens, outbox, now, ticks,
                   nextUserId, nextOtpId, nextRt, nextReset, resetTokenFK,
                   quota, exchanged, revoked>>
    /\ UNCHANGED cacheVars
    /\ UNCHANGED <<envVars, tokenVars>>

\* RefreshTokenModel.findByToken(refreshToken)
refreshToken_find(w) ==
    LET r == req[w] IN
    /\ r.pc = "refreshToken_find"
    /\ IF findByToken(r.token) = {}
       THEN req' = [req EXCEPT ![w] =
                       Respond(r, 401, "Invalid or expired refresh token")]
       ELSE \E s \in findByToken(r.token) :
               req' = [req EXCEPT ![w] =
                  [r EXCEPT !.pc = "refreshToken_user", !.uid = s.user_id]]
    /\ UNCHANGED <<users, otps, sessions, resetTokens, outbox, now, ticks,
                   nextUserId, nextOtpId, nextRt, nextReset, resetTokenFK,
                   reqCount, quota, exchanged, revoked>>
    /\ UNCHANGED cacheVars
    /\ UNCHANGED <<envVars, tokenVars>>

\* UserModel.findById(tokenData.user_id)
refreshToken_user(w) ==
    LET r == req[w] IN
    /\ r.pc = "refreshToken_user"
    /\ req' = [req EXCEPT ![w] =
          IF findById(r.uid) = {}
          THEN Respond(r, 404, "User not found")
          ELSE [r EXCEPT !.pc = "refreshToken_delete"]]
    /\ UNCHANGED <<users, otps, sessions, resetTokens, outbox, now, ticks,
                   nextUserId, nextOtpId, nextRt, nextReset, resetTokenFK,
                   reqCount, quota, exchanged, revoked>>
    /\ UNCHANGED cacheVars
    /\ UNCHANGED <<envVars, tokenVars>>

\* RefreshTokenModel.deleteByToken(refreshToken)
refreshToken_delete(w) ==
    LET r == req[w] IN
    /\ r.pc = "refreshToken_delete"
    /\ sessions' = deleteByToken(r.token)
    /\ req' = [req EXCEPT ![w] = ReadClock(r, "refreshToken_issue")]
    /\ UNCHANGED <<users, otps, resetTokens, outbox, now, ticks, nextUserId,
                   nextOtpId, nextRt, nextReset, resetTokenFK, reqCount,
                   quota, exchanged, revoked>>
    /\ UNCHANGED cacheVars
    /\ UNCHANGED <<envVars, tokenVars>>

\* RefreshTokenModel.create(user.id) and the 200
refreshToken_issue(w) ==
    LET r == req[w] IN
    /\ r.pc = "refreshToken_issue"
    /\ sessions' = sessions \cup
          {SessionRow(RandomToken(nextRt), r.uid, r.clock)}
    /\ nextRt' = nextRt + 1
    /\ exchanged' = exchanged \cup {<<r.token, RandomToken(nextRt)>>}
    /\ req' = [req EXCEPT ![w] =
          Respond([r EXCEPT !.outRefresh = RandomToken(nextRt),
                            !.outUser = r.uid], 200,
                  "Token refreshed successfully")]
    /\ UNCHANGED <<users, otps, resetTokens, outbox, now, ticks, nextUserId,
                   nextOtpId, nextReset, resetTokenFK, reqCount, quota,
                   revoked>>
    /\ UNCHANGED cacheVars
    /\ UNCHANGED <<envVars, tokenVars>>

\* ========================================================= POST /logout
logout(w, In) ==
    /\ Free(w)
    /\ \E t \in In :
          /\ sessions' = deleteByToken(t)
          /\ req' = [req EXCEPT ![w] =
                Respond([BlankReq EXCEPT !.op = "logout", !.token = t], 200,
                        "Logged out successfully")]
    /\ reqCount' = reqCount + 1
    /\ UNCHANGED <<users, otps, resetTokens, outbox, now, ticks, nextUserId,
                   nextOtpId, nextRt, nextReset, resetTokenFK, quota,
                   exchanged, revoked>>
    /\ UNCHANGED cacheVars
    /\ UNCHANGED <<envVars, tokenVars>>

\* ================================================ POST /forgot-password
Start_forgotPassword(w, In) ==
    /\ Free(w)
    /\ \E e \in In :
          req' = [req EXCEPT ![w] = [BlankReq EXCEPT !.op = "forgotPassword",
                     !.pc = "forgotPassword_find", !.email = e]]
    /\ reqCount' = reqCount + 1
    /\ UNCHANGED <<users, otps, sessions, resetTokens, outbox, now, ticks,
                   nextUserId, nextOtpId, nextRt, nextReset, resetTokenFK,
                   quota, exchanged, revoked>>
    /\ UNCHANGED cacheVars
    /\ UNCHANGED <<envVars, tokenVars>>

forgotPassword_find(w) ==
    LET r == req[w] IN
    /\ r.pc = "forgotPassword_find"
    /\ IF findByEmail(r.email) = {}
       THEN req' = [req EXCEPT ![w] = Respond(r, 200,
               "If an account with that email exists, a password reset link has been sent")]
       ELSE \E u \in findByEmail(r.email) :
               req' = [req EXCEPT ![w] =
                  ReadClock([r EXCEPT !.uid = u.id], "forgotPassword_create")]
    /\ UNCHANGED <<users, otps, sessions, resetTokens, outbox, now, ticks,
                   nextUserId, nextOtpId, nextRt, nextReset, resetTokenFK,
                   reqCount, quota, exchanged, revoked>>
    /\ UNCHANGED cacheVars
    /\ UNCHANGED <<envVars, tokenVars>>

\* TokenModel.createPasswordResetToken(user.id, resetToken)
forgotPassword_create(w) ==
    LET r == req[w] IN
    /\ r.pc = "forgotPassword_create"
    /\ IF ~HasResetTable \/ ResetTokenFKViolation(r.uid)
       THEN /\ req' = [req EXCEPT ![w] = Respond(r, 500,
                          "Failed to process password reset request")]
            /\ UNCHANGED <<resetTokens, nextReset>>
       ELSE /\ resetTokens' = resetTokens \cup
                   {ResetRow(RandomResetToken(nextReset), r.uid, r.clock)}
            /\ nextReset' = nextReset + 1
            /\ req' = [req EXCEPT ![w] =
                          [r EXCEPT !.pc = "forgotPassword_mail", !.clock = 0]]
    /\ UNCHANGED <<users, otps, sessions, outbox, now, ticks, nextUserId,
                   nextOtpId, nextRt, resetTokenFK, reqCount, quota,
                   exchanged, revoked>>
    /\ UNCHANGED cacheVars
    /\ UNCHANGED <<envVars, tokenVars>>

\* emailService.sendPasswordResetEmail and the 200
forgotPassword_mail(w) ==
    LET r == req[w] IN
    /\ r.pc = "forgotPassword_mail"
    /\ req' = [req EXCEPT ![w] = Respond(r, 200,
          "If an account with that email exists, a password reset link has been sent")]
    /\ UNCHANGED <<users, otps, sessions, resetTokens, outbox, now, ticks,
                   nextUserId, nextOtpId, nextRt, nextReset, resetTokenFK,
                   reqCount, quota, exchanged, revoked>>
    /\ UNCHANGED cacheVars
    /\ UNCHANGED <<envVars, tokenVars>>

\* ================================================= POST /reset-password
\* the reset tokens a client can present: issued ones and a made-up one
ResetInputs == {RandomResetToken(n) : n \in 0..(nextReset - 1)}

Start_resetPassword(w, In) ==
    /\ Free(w)
    /\ \E t \in ResetInputs, p \in In :
          req' = [req EXCEPT ![w] = [BlankReq EXCEPT !.op = "resetPassword",
                     !.pc = "resetPassword_find", !.token = t, !.password = p]]
    /\ reqCount' = reqCount + 1
    /\ UNCHANGED <<users, otps, sessions, resetTokens, outbox, now, ticks,
                   nextUserId, nextOtpId, nextRt, nextReset, resetTokenFK,
                   quota, exchanged, revoked>>
    /\ UNCHANGED cacheVars
    /\ UNCHANGED <<envVars, tokenVars>>

resetPassword_find(w) ==
    LET r == req[w] IN
    /\ r.pc = "resetPassword_find"
    /\ IF ~HasResetTable
       THEN req' = [req EXCEPT ![w] = Respond(r, 500, "Failed to reset password")]
       ELSE IF findPasswordResetToken(r.token) = {}
       THEN req' = [req EXCEPT ![w] =
                       Respond(r, 400, "Invalid or expired reset token")]
       ELSE \E t \in findPasswordResetToken(r.token) :
               req' = [req EXCEPT ![w] =
                          [r EXCEPT !.pc = "resetPassword_update", !.uid = t.user_id]]
    /\ UNCHANGED <<users, otps, sessions, resetTokens, outbox, now, ticks,
                   nextUserId, nextOtpId, nextRt, nextReset, resetTokenFK,
                   reqCount, quota, exchanged, revoked>>
    /\ UNCHANGED cacheVars
    /\ UNCHANGED <<envVars, tokenVars>>

\* UserModel.updatePassword(tokenData.user_id, password); the class of part_012 has
\* no such method and the call throws
resetPassword_update(w) ==
    LET r == req[w] IN
    /\ r.pc = "resetPassword_update"
    /\ IF userModel = "part_012"
       THEN /\ req' = [req EXCEPT ![w] =
                          Respond(r, 500, "Failed to reset password")]
            /\ UNCHANGED users
       ELSE /\ users' = updatePassword(r.uid, r.password)
            /\ req' = [req EXCEPT ![w] = [r EXCEPT !.pc = "resetPassword_mark"]]
    /\ UNCHANGED <<otps, sessions, resetTokens, outbox, now, ticks,
                   nextUserId, nextOtpId, nextRt, nextReset, resetTokenFK,
                   reqCount, quota, exchanged, revoked>>
    /\ UNCHANGED cacheVars
    /\ UNCHANGED <<envVars, tokenVars>>

resetPassword_mark(w) ==
    LET r == req[w] IN
    /\ r.pc = "resetPassword_mark"
    /\ resetTokens' = markPasswordResetTokenAsUsed(r.token)
    /\ req' = [req EXCEPT ![w] = [r EXCEPT !.pc = "resetPassword_revoke"]]
    /\ UNCHANGED <<users, otps, sessions, outbox, now, ticks, nextUserId,
                   nextOtpId, nextRt, nextReset, resetTokenFK, reqCount,
                   quota, exchanged, revoked>>
    /\ UNCHANGED cacheVars
    /\ UNCHANGED <<envVars, tokenVars>>

\* RefreshTokenModel.deleteAllByUserId(tokenData.user_id) and the 200
resetPassword_revoke(w) ==
    LET r == req[w] IN
    /\ r.pc = "resetPassword_revoke"
    /\ sessions' = deleteAllByUserId(r.uid)
    /\ revoked' = revoked \cup {s.token : s \in {x \in sessions : x.user_id = r.uid}}
    /\ req' = [req EXCEPT ![w] = Respond(r, 200,
          "Password reset successfully. Please login with your new password.")]
    /\ UNCHANGED <<users, otps, resetTokens, outbox, now, ticks, nextUserId,
                   nextOtpId, nextRt, nextReset, resetTokenFK, reqCount,
                   quota, exchanged>>
    /\ UNCHANGED cacheVars
    /\ UNCHANGED <<envVars, tokenVars>>

\* ===================================== resetPasswordWithToken (OTP flow)
ResetWithTokenInputs == [password : Passwords, email : Emails \cup {""}]

Start_resetPasswordWithToken(w, In) ==
    /\ Free(w)
    /\ \E t \in ResetInputs, i \in In :
          req' = [req EXCEPT ![w] = [BlankReq EXCEPT
                     !.op = "resetPasswordWithToken",
                     !.pc = "resetPasswordWithToken_find",
                     !.token = t, !.password = i.password, !.email = i.email]]
    /\ reqCount' = reqCount + 1
    /\ UNCHANGED <<users, otps, sessions, resetTokens, outbox, now, ticks,
                   nextUserId, nextOtpId, nextRt, nextReset, resetTokenFK,
                   quota, exchanged, revoked>>
    /\ UNCHANGED cacheVars
    /\ UNCHANGED <<envVars, tokenVars>>

\* TokenModel.findPasswordResetToken and the check of req.body.email
resetPasswordWithToken_find(w) ==
    LET r == req[w] IN
    /\ r.pc = "resetPasswordWithToken_find"
    /\ req' = [req EXCEPT ![w] =
          IF ~HasResetTable
          THEN Respond(r, 500, "Failed to reset password")
          ELSE IF findPasswordResetToken(r.token) = {}
          THEN Respond(r, 400, "Invalid or expired reset token")
          ELSE IF r.email = ""
               THEN Respond(r, 400, "Email is required")
               ELSE [r EXCEPT !.pc = "resetPasswordWithToken_user"]]
    /\ UNCHANGED <<users, otps, sessions, resetTokens, outbox, now, ticks,
                   nextUserId, nextOtpId, nextRt, nextReset, resetTokenFK,
                   reqCount, quota, exchanged, revoked>>
    /\ UNCHANGED cacheVars
    /\ UNCHANGED <<envVars, tokenVars>>

\* UserModel.findByEmail(email)
resetPasswordWithToken_user(w) ==
    LET r == req[w] IN
    /\ r.pc = "resetPasswordWithToken_user"
    /\ IF findByEmail(r.email) = {}
       THEN req' = [req EXCEPT ![w] = Respond(r, 400, "User not found")]
       ELSE \E u \in findByEmail(r.email) :
               req' = [req EXCEPT ![w] =
                  [r EXCEPT !.pc = "resetPasswordWithToken_update", !.uid = u.id]]
    /\ UNCHANGED <<users, otps, sessions, resetTokens, outbox, now, ticks,
                   nextUserId, nextOtpId, nextRt, nextReset, resetTokenFK,
                   reqCount, quota, exchanged, revoked>>
    /\ UNCHANGED cacheVars
    /\ UNCHANGED <<envVars, tokenVars>>

\* UserModel.updatePassword(user.id, password); the class of part_012 has
\* no such method and the call throws
resetPasswordWithToken_update(w) ==
    LET r == req[w] IN
    /\ r.pc = "resetPasswordWithToken_update"
    /\ IF userModel = "part_012"
       THEN /\ req' = [req EXCEPT ![w] =
                          Respond(r, 500, "Failed to reset password")]
            /\ UNCHANGED users
       ELSE /\ users' = updatePassword(r.uid, r.password)
            /\ req' = [req EXCEPT ![w] = [r EXCEPT !.pc = "resetPasswordWithToken_mark"]]
    /\ UNCHANGED <<otps, sessions, resetTokens, outbox, now, ticks,
                   nextUserId, nextOtpId, nextRt, nextReset, resetTokenFK,
                   reqCount, quota, exchanged, revoked>>
    /\ UNCHANGED cacheVars
    /\ UNCHANGED <<envVars, tokenVars>>

resetPasswordWithToken_mark(w) ==
    LET r == req[w] IN
    /\ r.pc = "resetPasswordWithToken_mark"
    /\ resetTokens' = markPasswordResetTokenAsUsed(r.token)
    /\ req' = [req EXCEPT ![w] = [r EXCEPT !.pc = "resetPasswordWithToken_revoke"]]
    /\ UNCHANGED <<users, otps, sessions, outbox, now, ticks, nextUserId,
                   nextOtpId, nextRt, nextReset, resetTokenFK, reqCount,
                   quota, exchanged, revoked>>
    /\ UNCHANGED cacheVars
    /\ UNCHANGED <<envVars, tokenVars>>

\* RefreshTokenModel.deleteAllByUserId(user.id) and the 200
resetPasswordWithToken_revoke(w) ==
    LET r == req[w] IN
    /\ r.pc = "resetPasswordWithToken_revoke"
    /\ sessions' = deleteAllByUserId(r.uid)
    /\ revoked' = revoked \cup {s.token : s \in {x \in sessions : x.user_id = r.uid}}
    /\ req' = [req EXCEPT ![w] = Respond(r, 200,
          "Password reset successfully. Please login with your new password.")]
    /\ UNCHANGED <<users, otps, resetTokens, outbox, now, ticks, nextUserId,
                   nextOtpId, nextRt, nextReset, resetTokenFK, reqCount,
                   quota, exchanged>>
    /\ UNCHANGED cacheVars
    /\ UNCHANGED <<envVars, tokenVars>>

\* ================================================== GET /verify-email/:token
\* the verification tokens a client can present: issued ones and a made-up one
EmailTokenInputs == {RandomEmailToken(n) : n \in 0..(nextEv - 1)}

Start_verifyEmail(w, In) ==
    /\ Free(w)
    /\ \E t \in In :
          req' = [req EXCEPT ![w] = [BlankReq EXCEPT !.op = "verifyEmail",
                     !.pc = "verifyEmail_find", !.token = t]]
    /\ reqCount' = reqCount + 1
    /\ UNCHANGED <<users, otps, sessions, resetTokens, outbox, now, ticks,
                   nextUserId, nextOtpId, nextRt, nextReset, resetTokenFK,
                   quota, exchanged, revoked>>
    /\ UNCHANGED cacheVars
    /\ UNCHANGED <<envVars, tokenVars>>

\* TokenModel.findEmailVerificationToken(token)
verifyEmail_find(w) ==
    LET r == req[w] IN
    /\ r.pc = "verifyEmail_find"
    /\ IF ~HasEmailTokenTable
       THEN req' = [req EXCEPT ![w] = Respond(r, 500, "Failed to verify email")]
       ELSE IF findEmailVerificationToken(r.token) = {}
       THEN req' = [req EXCEPT ![w] =
                       Respond(r, 400, "Invalid or expired verification token")]
       ELSE \E t \in findEmailVerificationToken(r.token) :
               req' = [req EXCEPT ![w] =
                          [r EXCEPT !.pc = "verifyEmail_verify", !.uid = t.user_id]]
    /\ UNCHANGED <<users, otps, sessions, resetTokens, outbox, now, ticks,
                   nextUserId, nextOtpId, nextRt, nextReset, resetTokenFK,
                   reqCount, quota, exchanged, revoked>>
    /\ UNCHANGED cacheVars
    /\ UNCHANGED <<envVars, tokenVars>>

\* UserModel.verifyEmail(tokenData.user_id); the class of part_012 has no
\* such method and the call throws
verifyEmail_verify(w) ==
    LET r == req[w] IN
    /\ r.pc = "verifyEmail_verify"
    /\ IF userModel = "part_012"
       THEN /\ req' = [req EXCEPT ![w] = Respond(r, 500, "Failed to verify email")]
            /\ UNCHANGED users
       ELSE /\ users' = verifyEmail(r.uid)
            /\ req' = [req EXCEPT ![w] = [r EXCEPT !.pc = "verifyEmail_delete"]]
    /\ UNCHANGED <<otps, sessions, resetTokens, outbox, now, ticks,
                   nextUserId, nextOtpId, nextRt, nextReset, resetTokenFK,
                   reqCount, quota, exchanged, revoked>>
    /\ UNCHANGED cacheVars
    /\ UNCHANGED <<envVars, tokenVars>>

\* TokenModel.deleteEmailVerificationToken(token)
verifyEmail_delete(w) ==
    LET r == req[w] IN
    /\ r.pc = "verifyEmail_delete"
    /\ emailTokens' = deleteEmailVerificationToken(r.token)
    /\ req' = [req EXCEPT ![w] = [r EXCEPT !.pc = "verifyEmail_user"]]
    /\ UNCHANGED <<users, otps, sessions, resetTokens, outbox, now, ticks,
                   nextUserId, nextOtpId, nextRt, nextReset, resetTokenFK,
                   reqCount, quota, exchanged, revoked>>
    /\ UNCHANGED cacheVars
    /\ UNCHANGED <<envVars, nextEv>>

\* UserModel.findById(tokenData.user_id), for the welcome mail
verifyEmail_user(w) ==
    LET r == req[w] IN
    /\ r.pc = "verifyEmail_user"
    /\ req' = [req EXCEPT ![w] =
          IF findById(r.uid) = {}
          THEN Respond(r, 200, "Email verified successfully")
          ELSE [r EXCEPT !.pc = "verifyEmail_mail"]]
    /\ UNCHANGED <<users, otps, sessions, resetTokens, outbox, now, ticks,
                   nextUserId, nextOtpId, nextRt, nextReset, resetTokenFK,
                   reqCount, quota, exchanged, revoked>>
    /\ UNCHANGED cacheVars
    /\ UNCHANGED <<envVars, tokenVars>>

\* emailService.sendWelcomeEmail and the 200
verifyEmail_mail(w) ==
    LET r == req[w] IN
    /\ r.pc = "verifyEmail_mail"
    /\ req' = [req EXCEPT ![w] = Respond(r, 200, "Email verified successfully")]
    /\ UNCHANGED <<users, otps, sessions, resetTokens, outbox, now, ticks,
                   nextUserId, nextOtpId, nextRt, nextReset, resetTokenFK,
                   reqCount, quota, exchanged, revoked>>
    /\ UNCHANGED cacheVars
    /\ UNCHANGED <<envVars, tokenVars>>

\* ============================================== POST /resend-verification
\* req.user.userId of an access token that authenticateToken accepted
UserIdInputs == {u.id : u \in users}

Start_resendVerification(w, In) ==
    /\ Free(w)
    /\ \E id \in In :
          req' = [req EXCEPT ![w] = [BlankReq EXCEPT
                     !.op = "resendVerification",
                     !.pc = "resendVerification_find", !.uid = id]]
    /\ reqCount' = reqCount + 1
    /\ UNCHANGED <<users, otps, sessions, resetTokens, outbox, now, ticks,
                   nextUserId, nextOtpId, nextRt, nextReset, resetTokenFK,
                   quota, exchanged, revoked>>
    /\ UNCHANGED cacheVars
    /\ UNCHANGED <<envVars, tokenVars>>

\* UserModel.findById(req.user.userId) and the check of email_verified, a
\* column the row of findById does not have: user.email_verified is undefined
resendVerification_find(w) ==
    LET r == req[w] IN
    /\ r.pc = "resendVerification_find"
    /\ IF findById(r.uid) = {}
       THEN req' = [req EXCEPT ![w] = Respond(r, 404, "User not found")]
       ELSE \E u \in findById(r.uid) :
               req' = [req EXCEPT ![w] =
                  IF "email_verified" \in DOMAIN u /\ u.email_verified
                  THEN Respond(r, 400, "Email already verified")
                  ELSE ReadClock(r, "resendVerification_token")]
    /\ UNCHANGED <<users, otps, sessions, resetTokens, outbox, now, ticks,
                   nextUserId, nextOtpId, nextRt, nextReset, resetTokenFK,
                   reqCount, quota, exchanged, revoked>>
    /\ UNCHANGED cacheVars
    /\ UNCHANGED <<envVars, tokenVars>>

\* TokenModel.createEmailVerificationToken(user.id, uuidv4())
resendVerification_token(w) ==
    LET r == req[w] IN
    /\ r.pc = "resendVerification_token"
    /\ IF ~HasEmailTokenTable
       THEN /\ req' = [req EXCEPT ![w] =
                          Respond(r, 500, "Failed to send verification email")]
            /\ UNCHANGED <<emailTokens, nextEv>>
       ELSE /\ emailTokens' = emailTokens \cup
                   {EmailTokenRow(RandomEmailToken(nextEv), r.uid, r.clock)}
            /\ nextEv' = nextEv + 1
            /\ req' = [req EXCEPT ![w] =
                  [r EXCEPT !.pc = "resendVerification_mail", !.clock = 0]]
    /\ UNCHANGED <<users, otps, sessions, resetTokens, outbox, now, ticks,
                   nextUserId, nextOtpId, nextRt, nextReset, resetTokenFK,
                   reqCount, quota, exchanged, revoked>>
    /\ UNCHANGED cacheVars
    /\ UNCHANGED envVars

\* emailService.sendVerificationEmail and the 200
resendVerification_mail(w) ==
    LET r == req[w] IN
    /\ r.pc = "resendVerification_mail"
    /\ req' = [req EXCEPT ![w] = Respond(r, 200, "Verification email sent")]
    /\ UNCHANGED <<users, otps, sessions, resetTokens, outbox, now, ticks,
                   nextUserId, nextOtpId, nextRt, nextReset, resetTokenFK,
                   reqCount, quota, exchanged, revoked>>
    /\ UNCHANGED cacheVars
    /\ UNCHANGED <<envVars, tokenVars>>

\* =========================================================== GET /profile
\* UserModel.findById(req.user.userId): 200 with the user, or 404
getProfile(w, In) ==
    /\ Free(w)
    /\ \E id \in In :
          req' = [req EXCEPT ![w] =
                IF findById(id) = {}
                THEN Respond([BlankReq EXCEPT !.op = "getProfile", !.uid = id],
                             404, "User not found")
                ELSE Respond([BlankReq EXCEPT !.op = "getProfile", !.uid = id,
                                              !.outUser = id], 200, "")]
    /\ reqCount' = reqCount + 1
    /\ UNCHANGED <<users, otps, sessions, resetTokens, outbox, now, ticks,
                   nextUserId, nextOtpId, nextRt, nextReset, resetTokenFK,
                   quota, exchanged, revoked>>
    /\ UNCHANGED cacheVars
    /\ UNCHANGED <<envVars, tokenVars>>

\* ======================================= model methods no handler calls
\* TokenModel.deletePasswordResetTokensByUserId(userId)
TokenModel_deletePasswordResetTokensByUserId(In) ==
    /\ HasResetTable
    /\ \E id \in In :
          /\ \E t \in resetTokens : t.user_id = id
          /\ resetTokens' = deletePasswordResetTokensByUserId(id)
    /\ UNCHANGED <<users, otps, sessions, outbox, now, ticks, nextUserId,
                   nextOtpId, nextRt, nextReset, resetTokenFK, req, reqCount,
                   quota, exchanged, revoked>>
    /\ UNCHANGED cacheVars
    /\ UNCHANGED <<envVars, tokenVars>>

\* RefreshTokenModel.deleteExpired: DELETE ... WHERE expires_at <= NOW()
RefreshToken_deleteExpired ==
    /\ \E s \in sessions : s.expires_at <= now
    /\ sessions' = {s \in sessions : ~(s.expires_at <= now)}
    /\ UNCHANGED <<users, otps, resetTokens, outbox, now, ticks, nextUserId,
                   nextOtpId, nextRt, nextReset, resetTokenFK, req, reqCount,
                   quota, exchanged, revoked>>
    /\ UNCHANGED cacheVars
    /\ UNCHANGED <<envVars, tokenVars>>

\* ------------------------------------------------------------------------
\* The passcode endpoints alone.  The store holds what POST /register
\* {alice, a@x.io, Passw0rd1} followed by POST /logout leaves behind: one
\* identity and no session.  b@x.io registers, a@x.io resets its password.
InitOtp ==
    /\ zone = "utc"
    /\ users = {UserRow(1, "alice", "a@x.io", Hash("Passw0rd1"), FALSE)}
    /\ otps = {}
    /\ sessions = {}
    /\ resetTokens = {}
    /\ outbox = {}
    /\ now = 0
    /\ ticks = 0
    /\ nextUserId = 2
    /\ nextOtpId = 1
    /\ nextRt = 2
    /\ nextReset = 1
    /\ resetTokenFK \in BOOLEAN
    /\ req = [w \in Workers |-> BlankReq]
    /\ reqCount = 0
    /\ quota = MaxOtpReq
    /\ exchanged = {}
    /\ revoked = {}
    /\ CacheInit
    /\ schema = "complete"
    /\ userModel \in UserModels
    /\ emailTokens = {AliceEmailToken}
    /\ nextEv = 2

OtpSendInputs ==
    {[email |-> "b@x.io", type |-> "registration", username |-> "bob",
      password |-> "Passw0rd2"],
     [email |-> "a@x.io", type |-> "password_reset", username |-> "",
      password |-> ""]}

OtpVerifyInputs ==
    {[email |-> "b@x.io", type |-> "registration", otp |-> c, password |-> ""]
        : c \in Codes} \cup
    {[email |-> "a@x.io", type |-> "password_reset", otp |-> c,
      password |-> "Passw0rd2"] : c \in Codes}

\* one step of the clock: a second, the lifetime of a passcode (its expiry
\* instant) or a second more (when the sweep removes it)
OtpTickSteps == {1, ExpiresIn, ExpiresIn + 1}

NextOtp ==
    \/ \E w \in Workers : Start_sendOTP(w, OtpSendInputs)
    \/ \E w \in Workers : sendOTP_check(w)
    \/ \E w \in Workers : sendOTP_hash(w)
    \/ \E w \in Workers : sendOTP_store(w)
    \/ \E w \in Workers : sendOTP_user(w)
    \/ \E w \in Workers : sendOTP_mail(w)
    \/ \E w \in Workers : Start_verifyOTP(w, OtpVerifyInputs)
    \/ \E w \in Workers : verifyOTP_select(w)
    \/ \E w \in Workers : verifyOTP_update(w)
    \/ \E w \in Workers : verifyOTP_regSelect(w)
    \/ \E w \in Workers : verifyOTP_regUpdate(w)
    \/ \E w \in Workers : verifyOTP_createUser(w)
    \/ \E w \in Workers : verifyOTP_cleanup(w)
    \/ \E w \in Workers : verifyOTP_resetToken(w)
    \/ \E w \in Workers : verifyOTP_resetCleanup(w)
    \/ OTP_deleteExpired
    \/ TickUpTo(OtpTickSteps, MaxScenarioTicks)

SpecOtp == InitOtp /\ [][NextOtp]_vars

\* ======================================================================
\* Properties of the passcode ledger and of the flows that use it
\* ======================================================================
VerifyReturned(w) ==
    /\ req[w].op = "verifyOTP"
    /\ req[w].rec # 0
    /\ req[w].pc \notin {"verifyOTP_select", "verifyOTP_update"}

\* C1: a passcode is consumed at most once: two verify calls never both
\* return the same passcode record, whatever the interleaving of their
\* SELECT and UPDATE steps.
C1_ConsumedAtMostOnce ==
    \A v, w \in Workers :
        (v # w /\ VerifyReturned(v) /\ VerifyReturned(w))
            => req[v].rec # req[w].rec

\* a verify call presenting a mailed code has just selected the passcode
\* record it will consume
Selects(w) ==
    /\ req[w].op = "verifyOTP"
    /\ req[w].pc = "verifyOTP_select"
    /\ req'[w].pc = "verifyOTP_update"
    /\ req[w].mailed

\* C4: issuing a new passcode invalidates the previous one: a verify call
\* never accepts a code while a passcode issued and mailed later for the
\* same (email, type) with another code is in the ledger.
C4_OnlyNewestVerifies ==
    [][\A w \in Workers :
          Selects(w) =>
             ~(\E o \in otps : /\ o.email = req[w].email
                               /\ o.type = req[w].type
                               /\ o.id > req'[w].rec
                               /\ o.otp_code # req[w].otp
                               /\ \E m \in outbox : m.id = o.id)]_vars

Active(e, t) ==
    {o \in otps : o.email = e /\ o.type = t /\ o.is_verified = FALSE
                  /\ o.expires_at > now}

\* C5: no reachable state holds two active (unverified, unexpired) passcode
\* records for the same (email, type).
C5_OneActivePasscode ==
    \A e \in Emails, t \in Types : Cardinality(Active(e, t)) <= 1

\* a verify call (the first one or the one of getRegistrationData) has just
\* run its SELECT against the ledger
RanSelect(w) ==
    /\ req[w].pc \in {"verifyOTP_select", "verifyOTP_regSelect"}
    /\ req'[w].pc # req[w].pc

Accepted(w) == req'[w].pc \in {"verifyOTP_update", "verifyOTP_regUpdate"}

AcceptedId(w) ==
    IF req'[w].pc = "verifyOTP_update" THEN req'[w].rec ELSE req'[w].rec2

\* the INSERT of sendOTP has just stored a record
Stored(w) == req[w].pc = "sendOTP_store" /\ req'[w].pc = "sendOTP_user"

\* C6: a passcode record issued at t, the instant at which the handler calls
\* OTPModel.create, expires at t + ExpiresIn, which is never later than
\* ExpiresIn seconds after the record is stored, and a verify call that runs
\* at or after that instant accepts no record, whatever code is submitted
\* and whether or not the sweep has run.
C6_ExpiredRejected ==
    /\ [][\A w \in Workers :
            Stored(w) =>
                \E o \in otps' \ otps :
                    /\ o.id = req'[w].rec
                    /\ o.expires_at = req[w].clock + ExpiresIn]_vars
    /\ [](\A o \in otps : o.expires_at <= o.created_at + ExpiresIn)
    /\ [][\A w \in Workers :
            (RanSelect(w) /\ Accepted(w)) =>
                \E o \in otps : /\ o.id = AcceptedId(w)
                                /\ now < o.expires_at]_vars

\* C6 witness: a passcode that was issued and mailed is still in the
\* ledger, unconsumed, and a verify call with its code failed at its expiry
\* instant.
C6_Witness ==
    /\ req["w1"].op = "verifyOTP" /\ req["w1"].pc = "done"
    /\ req["w1"].status = 400 /\ req["w2"].op = "idle"
    /\ req["w1"].mailed
    /\ \E o \in otps : /\ o.email = req["w1"].email /\ o.type = req["w1"].type
                       /\ o.otp_code = req["w1"].otp /\ o.is_verified = FALSE
                       /\ now = o.expires_at

\* C7: a single verifyOTP call (type registration) with the code that was
\* issued and mailed completes the registration: it answers 201 and the
\* identity exists with email_verified = true.
C7_RegistrationCompletes ==
    \A w \in Workers :
        (req[w].op = "verifyOTP" /\ req[w].type = "registration"
            /\ req[w].pc = "done" /\ req[w].rec # 0 /\ req[w].mailed)
        => /\ req[w].status = 201
           /\ \E u \in users : u.email = req[w].email /\ u.email_verified

\* a handler has just answered with a refreshToken in the body
ReturnsRefresh(w) ==
    /\ req[w].pc # "done"
    /\ req'[w].pc = "done"
    /\ req'[w].outRefresh # NoTok

\* a verifyOTP call of type registration answers after UserModel.create
\* made the identity: the registration is complete
CompletesRegistration(w) ==
    /\ req[w].pc = "verifyOTP_cleanup"
    /\ req'[w].pc = "done"

C10_ResetChangesPassword ==
    \A w \in Workers :
        (req[w].op = "verifyOTP" /\ req[w].type = "password_reset"
            /\ req[w].pc = "done" /\ req[w].rec # 0 /\ req[w].password # ""
            /\ req[w].mailed)
        => \E u \in users : /\ u.email = req[w].email
                            /\ verifyPassword(req[w].password, u.password_hash)
\* ------------------------------------------------------------------------
\* The session endpoints alone, for the identity alice.  The store holds
\* what POST /register {alice, a@x.io, Passw0rd1} followed by POST /logout
\* leaves behind: one identity and no session.
InitSession ==
    /\ zone \in Zones
    /\ users = {UserRow(1, "alice", "a@x.io", Hash("Passw0rd1"), FALSE)}
    /\ otps = {}
    /\ sessions = {}
    /\ resetTokens = {}
    /\ outbox = {}
    /\ now = 0
    /\ ticks = 0
    /\ nextUserId = 2
    /\ nextOtpId = 1
    /\ nextRt = 2
    /\ nextReset = 1
    /\ resetTokenFK = TRUE
    /\ req = [w \in Workers |-> BlankReq]
    /\ reqCount = 0
    /\ quota = MaxSessionReq
    /\ exchanged = {}
    /\ revoked = {}
    /\ CacheInit
    /\ schema = "complete"
    /\ userModel = "part_012"
    /\ emailTokens = {AliceEmailToken}
    /\ nextEv = 2

SessionLoginInputs ==
    {[email |-> "a@x.io", password |-> p] : p \in Passwords}

NextSession ==
    \/ \E w \in Workers : Start_login(w, SessionLoginInputs)
    \/ \E w \in Workers : login_find(w)
    \/ \E w \in Workers : login_verify(w)
    \/ \E w \in Workers : login_issue(w)
    \/ \E w \in Workers : Start_refreshToken(w, TokenInputs)
    \/ \E w \in Workers : refreshToken_find(w)
    \/ \E w \in Workers : refreshToken_user(w)
    \/ \E w \in Workers : refreshToken_delete(w)
    \/ \E w \in Workers : refreshToken_issue(w)
    \/ \E w \in Workers : logout(w, TokenInputs)
    \/ RefreshToken_deleteExpired
    \/ TickUpTo({1, RefreshTTL}, MaxScenarioTicks)

SpecSession == InitSession /\ [][NextSession]_vars

\* ======================================================================
\* Properties of the session ledger
\* ======================================================================
\* C2: refresh-token rotation is atomic: one presented token is exchanged
\* at most once, so no two successful refreshToken calls (and no two new
\* session records) come from the same presented token, whatever the
\* interleaving of their find, delete and create steps.
C2_RotationAtomic ==
    \A x, y \in exchanged : x[1] = y[1] => x[2] = y[2]

\* a refreshToken call has just answered 200 with a new refresh token
Rotates(w) ==
    /\ req[w].pc = "refreshToken_issue"
    /\ req'[w].pc = "done"
    /\ req'[w].status = 200

\* a refreshToken call has just looked its token up in the ledger
Looks(w) ==
    /\ req[w].pc = "refreshToken_find"
    /\ req'[w].pc # "refreshToken_find"

\* C3: rotation is exactly-once in sequence: a refreshToken call that
\* starts after its token was exchanged answers 401; the exchange leaves
\* the old token out of the ledger and the returned one in it, owned by the
\* same identity and expiring after the instant at which the handler
\* issued it; and a call whose token is in the
\* ledger, unexpired, is not turned away, neither at the lookup of the
\* token nor at the lookup of its owner.
C3_RotationExactlyOnce ==
    /\ [](\A w \in Workers :
            (req[w].op = "refreshToken" /\ req[w].pc = "done" /\ req[w].late)
               => /\ req[w].status = 401
                  /\ req[w].message = "Invalid or expired refresh token")
    /\ [][\A w \in Workers :
            /\ Rotates(w) =>
                 /\ \A s \in sessions' : s.token # req[w].token
                 /\ \E s \in sessions' : /\ s.token = req'[w].outRefresh
                                         /\ s.user_id = req[w].uid
                                         /\ s.expires_at > req[w].clock
            /\ (Looks(w) /\ findByToken(req[w].token) # {}) =>
                 req'[w].pc = "refreshToken_user"
            /\ (req[w].pc = "refreshToken_user"
                   /\ req'[w].pc # "refreshToken_user") =>
                 req'[w].pc = "refreshToken_delete"]_vars

\* C3 witness: login gave R1, R1 was exchanged for R2, R2 was exchanged in
\* turn, and a later call presenting R1 again was answered 401.
C3_Witness ==
    /\ \E x, y \in exchanged : x[2] = y[1]
    /\ \E w \in Workers :
          /\ req[w].op = "refreshToken" /\ req[w].pc = "done"
          /\ req[w].late /\ req[w].status = 401
          /\ \E x, y \in exchanged : x[1] = req[w].token /\ x[2] = y[1]
\* ------------------------------------------------------------------------
ResetLoginInputs == {[email |-> "a@x.io", password |-> "Passw0rd1"]}

ResetWithTokenBodies ==
    {[password |-> "Passw0rd2", email |-> e] : e \in {"a@x.io", "b@x.io", ""}}

NextReset ==
    \/ \E w \in Workers : Start_login(w, ResetLoginInputs)
    \/ \E w \in Workers : login_find(w)
    \/ \E w \in Workers : login_verify(w)
    \/ \E w \in Workers : login_issue(w)
    \/ \E w \in Workers : Start_refreshToken(w, TokenInputs)
    \/ \E w \in Workers : refreshToken_find(w)
    \/ \E w \in Workers : refreshToken_user(w)
    \/ \E w \in Workers : refreshToken_delete(w)
    \/ \E w \in Workers : refreshToken_issue(w)
    \/ \E w \in Workers : Start_forgotPassword(w, {"a@x.io", "b@x.io"})
    \/ \E w \in Workers : forgotPassword_find(w)
    \/ \E w \in Workers : forgotPassword_create(w)
    \/ \E w \in Workers : forgotPassword_mail(w)
    \/ \E w \in Workers : Start_resetPassword(w, {"Passw0rd2"})
    \/ \E w \in Workers : resetPassword_find(w)
    \/ \E w \in Workers : resetPassword_update(w)
    \/ \E w \in Workers : resetPassword_mark(w)
    \/ \E w \in Workers : resetPassword_revoke(w)
    \/ \E w \in Workers : Start_resetPasswordWithToken(w, ResetWithTokenBodies)
    \/ \E w \in Workers : resetPasswordWithToken_find(w)
    \/ \E w \in Workers : resetPasswordWithToken_user(w)
    \/ \E w \in Workers : resetPasswordWithToken_update(w)
    \/ \E w \in Workers : resetPasswordWithToken_mark(w)
    \/ \E w \in Workers : resetPasswordWithToken_revoke(w)
    \/ Tick({ResetTokenTTL})


\* a password reset has just answered 200
ResetSucceeds(w) ==
    /\ req[w].pc \in {"resetPassword_revoke", "resetPasswordWithToken_revoke"}
    /\ req'[w].pc = "done"
    /\ req'[w].status = 200

\* C9: a successful password reset (resetPassword or
\* resetPasswordWithToken) for an identity leaves no session record owned
\* by that identity in the ledger, however many it held, and a
\* refreshToken call that later presents one of the removed tokens answers
\* 401.
C9_ResetRevokesSessions ==
    /\ [](\A w \in Workers :
            (req[w].op = "refreshToken" /\ req[w].pc = "done"
                /\ req[w].afterReset)
               => /\ req[w].status = 401
                  /\ req[w].message = "Invalid or expired refresh token")
    /\ [][\A w \in Workers :
            ResetSucceeds(w) =>
               \A s \in sessions' : s.user_id # req[w].uid]_vars

\* C9 witness: a reset removed two or more session records of one identity
\* and a later refreshToken call with one of them was answered 401.
C9_Witness ==
    /\ Cardinality(revoked) >= 2
    /\ \A s \in sessions : s.token \notin revoked
    /\ \E w \in Workers :
          /\ req[w].op = "refreshToken" /\ req[w].pc = "done"
          /\ req[w].afterReset /\ req[w].status = 401
\* ------------------------------------------------------------------------
\* The checks in front of the passcode issue, of the login and of the
\* reset-link request.  The store holds what POST /register {alice, a@x.io,
\* Passw0rd1} followed by POST /logout leaves behind; b@x.io and bob belong
\* to nobody.  Where register ends 500 before it issues a refresh token
\* there is no session to log out of, and the identity row is all it leaves.
InitGate ==
    /\ zone = "utc"
    /\ schema \in Schemas
    /\ userModel = "part_012"
    /\ resetTokenFK \in BOOLEAN
    /\ schema = "part_014" => resetTokenFK
    /\ schema = "initDb" => ~resetTokenFK
    /\ users = {UserRow(1, "alice", "a@x.io", Hash("Passw0rd1"), FALSE)}
    /\ otps = {}
    /\ sessions = {}
    /\ resetTokens = {}
    /\ outbox = {}
    /\ now = 0
    /\ ticks = 0
    /\ nextUserId = 2
    /\ nextOtpId = 1
    /\ nextReset = 1
    /\ req = [w \in Workers |-> BlankReq]
    /\ reqCount = 0
    /\ quota = MaxGateReq
    /\ exchanged = {}
    /\ revoked = {}
    /\ CacheInit
    \* without email_verification_tokens register stops at
    \* createEmailVerificationToken, after UserModel.create and before
    \* RefreshTokenModel.create: no token of either kind was drawn
    /\ emailTokens = IF HasEmailTokenTable THEN {AliceEmailToken} ELSE {}
    /\ nextEv = IF HasEmailTokenTable THEN 2 ELSE 1
    /\ nextRt = IF HasEmailTokenTable THEN 2 ELSE 1

GateSendInputs ==
    {[email |-> e, type |-> "registration", username |-> n,
      password |-> "Passw0rd2"] : e \in Emails, n \in Usernames} \cup
    {[email |-> e, type |-> "password_reset", username |-> "",
      password |-> ""] : e \in Emails}

NextGate ==
    \/ \E w \in Workers : Start_sendOTP(w, GateSendInputs)
    \/ \E w \in Workers : sendOTP_check(w)
    \/ \E w \in Workers : sendOTP_hash(w)
    \/ \E w \in Workers : sendOTP_store(w)
    \/ \E w \in Workers : sendOTP_user(w)
    \/ \E w \in Workers : sendOTP_mail(w)
    \/ \E w \in Workers : Start_login(w, LoginInputs)
    \/ \E w \in Workers : login_find(w)
    \/ \E w \in Workers : login_verify(w)
    \/ \E w \in Workers : login_issue(w)
    \/ \E w \in Workers : Start_forgotPassword(w, Emails)
    \/ \E w \in Workers : forgotPassword_find(w)
    \/ \E w \in Workers : forgotPassword_create(w)
    \/ \E w \in Workers : forgotPassword_mail(w)

SpecGate == InitGate /\ [][NextGate]_vars

\* ======================================================================
\* Properties of the checks in front of the issue and of the login
\* ======================================================================
NoIdentity(email) == \A u \in users : u.email # email

\* a sendOTP call has just run its availability check
Checks(w) ==
    /\ req[w].pc = "sendOTP_check"
    /\ req'[w].pc # "sendOTP_check"

\* C11: a password-reset request for an email with no identity is
\* acknowledged with a 200 and changes nothing: sendOTP creates no passcode
\* record and sends no code, forgotPassword creates no reset token; no
\* password-reset passcode or mail ever exists for such an email.
C11_ResetRequestAntiEnumerating ==
    /\ [](/\ \A o \in otps :
               o.type = "password_reset" => ~NoIdentity(o.email)
          /\ \A m \in outbox :
               m.type = "password_reset" => ~NoIdentity(m.email))
    /\ [][\A w \in Workers :
            /\ (Checks(w) /\ req[w].type = "password_reset"
                    /\ NoIdentity(req[w].email)) =>
                 /\ req'[w].pc = "done" /\ req'[w].status = 200
                 /\ req'[w].rec = 0
                 /\ otps' = otps /\ outbox' = outbox
            /\ (req[w].pc = "forgotPassword_find" /\ req'[w] # req[w]
                    /\ NoIdentity(req[w].email)) =>
                 /\ req'[w].pc = "done" /\ req'[w].status = 200
                 /\ resetTokens' = resetTokens]_vars

\* C11 witness: a password-reset code was requested for b@x.io, which has
\* no identity; the call answered 200 and neither the ledger nor the
\* outbox holds anything for that email.
C11_Witness ==
    \E w \in Workers :
        /\ req[w].op = "sendOTP" /\ req[w].type = "password_reset"
        /\ req[w].pc = "done" /\ req[w].status = 200
        /\ NoIdentity(req[w].email)
        /\ \A o \in otps : o.email # req[w].email
        /\ \A m \in outbox : m.email # req[w].email
\* a login call has just looked the identity up
LooksUp(w) ==
    /\ req[w].pc = "login_find"
    /\ req'[w].pc # "login_find"

\* a login call has just compared the password with the hash it fetched
Compares(w) ==
    /\ req[w].pc = "login_verify"
    /\ req'[w].pc # "login_verify"

\* no identity has this email together with this password
BadCredentials(email, password) ==
    \A u \in users : u.email = email => u.password_hash # Hash(password)

FailedLogin(w) ==
    /\ req[w].op = "login" /\ req[w].pc = "done" /\ req[w].status # 200

\* C12: login with an unknown email and login with a known email and a
\* wrong password are answered alike: both 401 with the same message, no
\* token in the answer and no session record created.
C12_LoginAntiEnumerating ==
    /\ [](\A v, w \in Workers :
            (FailedLogin(v) /\ FailedLogin(w)) =>
               /\ req[v].status = 401 /\ req[w].status = 401
               /\ req[v].message = req[w].message
               /\ req[v].outRefresh = NoTok)
    /\ [][\A w \in Workers :
            /\ (LooksUp(w) /\ findByEmail(req[w].email) = {}) =>
                  /\ req'[w].pc = "done" /\ req'[w].status = 401
                  /\ req'[w].message = "Invalid email or password"
                  /\ sessions' = sessions
            /\ (LooksUp(w) /\ BadCredentials(req[w].email, req[w].password)
                   /\ req'[w].pc # "done") =>
                  /\ req'[w].pc = "login_verify"
                  /\ req'[w].hash # Hash(req[w].password)
                  /\ sessions' = sessions
            /\ (Compares(w) /\ req[w].hash # Hash(req[w].password)) =>
                  /\ req'[w].pc = "done" /\ req'[w].status = 401
                  /\ req'[w].message = "Invalid email or password"
                  /\ sessions' = sessions]_vars

\* C12 witness: one call with an unknown email and one with the email of
\* alice and a wrong password have both been answered.
C12_Witness ==
    \E v, w \in Workers :
        /\ FailedLogin(v) /\ NoIdentity(req[v].email)
        /\ FailedLogin(w) /\ ~NoIdentity(req[w].email)
        /\ BadCredentials(req[w].email, req[w].password)
        /\ sessions = {}
\* C13: a registration code requested for an email that belongs to an
\* identity is refused with 409 'Email already registered'; the call
\* creates no passcode record and sends no code.
C13_RegisteredEmailRefused ==
    [][\A w \in Workers :
          (Checks(w) /\ req[w].type = "registration"
              /\ ~NoIdentity(req[w].email)) =>
             /\ req'[w].pc = "done" /\ req'[w].status = 409
             /\ req'[w].message = "Email already registered"
             /\ req'[w].rec = 0
             /\ otps' = otps /\ outbox' = outbox]_vars

\* C13 witness: a registration code was requested for a@x.io, the email of
\* alice; the call answered 409 and nothing was issued for that email.
C13_Witness ==
    \E w \in Workers :
        /\ req[w].op = "sendOTP" /\ req[w].type = "registration"
        /\ req[w].pc = "done" /\ req[w].status = 409
        /\ ~NoIdentity(req[w].email)
        /\ \A o \in otps : o.email # req[w].email
        /\ \A m \in outbox : m.email # req[w].email

\* C15: a registration code requested with a username that belongs to an
\* identity is refused: the call ends without a 200 and issues no passcode.
C15_UsernameChecked ==
    [][\A w \in Workers :
          (Checks(w) /\ req[w].type = "registration"
              /\ \E u \in users : u.username = req[w].username) =>
             /\ req'[w].pc = "done" /\ req'[w].status # 200
             /\ otps' = otps]_vars
\* ------------------------------------------------------------------------
\* The ways an identity comes to exist: the passcode registration of
\* bob/b@x.io and POST /register for the same email.  The store holds what
\* POST /register {alice, a@x.io, Passw0rd1} followed by POST /logout
\* leaves behind.
InitRace ==
    /\ zone = "utc"
    /\ users = {UserRow(1, "alice", "a@x.io", Hash("Passw0rd1"), FALSE)}
    /\ otps = {}
    /\ sessions = {}
    /\ resetTokens = {}
    /\ outbox = {}
    /\ now = 0
    /\ ticks = 0
    /\ nextUserId = 2
    /\ nextOtpId = 1
    /\ nextRt = 2
    /\ nextReset = 1
    /\ resetTokenFK \in BOOLEAN
    /\ req = [w \in Workers |-> BlankReq]
    /\ reqCount = 0
    /\ quota = MaxRaceReq
    /\ exchanged = {}
    /\ revoked = {}
    /\ CacheInit
    /\ schema = "complete"
    /\ userModel \in UserModels
    /\ emailTokens = {AliceEmailToken}
    /\ nextEv = 2

RaceSendInputs ==
    {[email |-> "b@x.io", type |-> "registration", username |-> "bob",
      password |-> "Passw0rd2"]}

RaceVerifyInputs ==
    {[email |-> "b@x.io", type |-> "registration", otp |-> c, password |-> ""]
        : c \in Codes}

RaceRegisterInputs ==
    {[username |-> "bob", email |-> "b@x.io", password |-> "Passw0rd1"]}

NextRace ==
    \/ \E w \in Workers : Start_sendOTP(w, RaceSendInputs)
    \/ \E w \in Workers : sendOTP_check(w)
    \/ \E w \in Workers : sendOTP_hash(w)
    \/ \E w \in Workers : sendOTP_store(w)
    \/ \E w \in Workers : sendOTP_user(w)
    \/ \E w \in Workers : sendOTP_mail(w)
    \/ \E w \in Workers : Start_verifyOTP(w, RaceVerifyInputs)
    \/ \E w \in Workers : verifyOTP_select(w)
    \/ \E w \in Workers : verifyOTP_update(w)
    \/ \E w \in Workers : verifyOTP_regSelect(w)
    \/ \E w \in Workers : verifyOTP_regUpdate(w)
    \/ \E w \in Workers : verifyOTP_createUser(w)
    \/ \E w \in Workers : verifyOTP_cleanup(w)
    \/ \E w \in Workers : Start_register(w, RaceRegisterInputs)
    \/ \E w \in Workers : register_emailExists(w)
    \/ \E w \in Workers : register_usernameExists(w)
    \/ \E w \in Workers : register_hash(w)
    \/ \E w \in Workers : register_create(w)
    \/ \E w \in Workers : register_token(w)
    \/ \E w \in Workers : register_mail(w)
    \/ \E w \in Workers : register_issue(w)

SpecRace == InitRace /\ [][NextRace]_vars
\* ======================================================================
\* Properties of the creation of identities
\* ======================================================================
\* a call has just run its INSERT INTO users
Creates(w) ==
    /\ req[w].pc \in {"verifyOTP_createUser", "register_create"}
    /\ req'[w].pc # req[w].pc

\* C14: when creations of an identity for the same email race after both
\* passed the availability check, no two identities share an email, no
\* stored identity is changed, and a registration completion that finds the
\* email taken at its INSERT is answered with a conflict (409), not with a
\* server error.
C14_RegistrationRace ==
    /\ [](\A u, v \in users : u.email = v.email => u = v)
    /\ [][\A w \in Workers :
            Creates(w) =>
               /\ users \subseteq users'
               /\ (users' = users /\ req[w].op = "verifyOTP"
                     /\ \E u \in users : u.email = req[w].email) =>
                     /\ req'[w].pc = "done"
                     /\ req'[w].status = 409]_vars

\* C16: an identity enters the credential store only in the step of a
\* verifyOTP call that has verified a registration passcode for the
\* identity's email.
C16_CreatedOnlyAfterVerification ==
    [][\A u \in users' \ users :
          \E w \in Workers :
             /\ req[w].op = "verifyOTP" /\ req[w].type = "registration"
             /\ req[w].pc = "verifyOTP_createUser"
             /\ req[w].rec # 0 /\ req[w].email = u.email]_vars
\* ======================================================================
\* Further properties of the passcode ledger
\* ======================================================================
\* C17: the code mailed to the user is never what the ledger holds: no
\* passcode record stores the 6-digit code that was sent for it.
C17_PlaintextNeverStored ==
    \A o \in otps : \A m \in outbox : m.id = o.id => o.otp_code # m.otp

\* the ledger holds a consumed record for this email, type and code
Consumed(email, code, type) ==
    \E o \in otps : /\ o.email = email /\ o.type = type
                    /\ o.otp_code = code /\ o.is_verified = TRUE

\* C18: a consumed passcode is not accepted again: a verify call that runs
\* alone, after a record for its (email, type, code) was consumed, accepts
\* no record.
C18_NoReuseAfterConsumption ==
    [][\A w \in Workers :
          (RanSelect(w) /\ (\A v \in Workers \ {w} : ~Busy(v))
              /\ Consumed(req[w].email, req[w].otp, req[w].type))
             => ~Accepted(w)]_vars

\* the unconsumed, unexpired records of (email, type) that carry this code
Correct(email, code, type) ==
    {o \in otps : /\ o.email = email /\ o.type = type /\ o.otp_code = code
                  /\ o.is_verified = FALSE /\ o.expires_at > now}

\* the first verify of a verifyOTP call has just run its SELECT
FirstSelect(w) ==
    /\ req[w].pc = "verifyOTP_select"
    /\ req'[w].pc # "verifyOTP_select"

\* C19: a verify call with a code that matches no record of its
\* (email, type) answers 400 and leaves every record as it was, and a
\* verify call with the code of an unconsumed, unexpired record accepts
\* such a record, whatever attempts came before.
C19_WrongCodeDoesNotConsume ==
    [][\A w \in Workers :
          FirstSelect(w) =>
             /\ otps' = otps
             /\ (Correct(req[w].email, req[w].otp, req[w].type) = {}) =>
                   /\ req'[w].pc = "done" /\ req'[w].status = 400
                   /\ req'[w].message = "Invalid or expired OTP"
                   /\ req'[w].rec = 0
             /\ (Correct(req[w].email, req[w].otp, req[w].type) # {}) =>
                   /\ req'[w].pc = "verifyOTP_update"
                   /\ \E o \in Correct(req[w].email, req[w].otp, req[w].type) :
                         o.id = req'[w].rec]_vars

\* C19 witness: a verify call with a code that was never issued answered
\* 400, the ledger is as it was, and a verify call with the code of a
\* record has then accepted that record.
C19_Witness ==
    \E v, w \in Workers :
        /\ req[v].op = "verifyOTP" /\ req[v].pc = "done" /\ req[v].status = 400
        /\ req[w].op = "verifyOTP" /\ req[w].pc = "verifyOTP_update"
        /\ req[w].email = req[v].email /\ req[w].type = req[v].type
        /\ req[w].otp # req[v].otp
        /\ reqCount = 2
        /\ \A o \in otps : o.is_verified = FALSE
        /\ \E o \in Correct(req[w].email, req[w].otp, req[w].type) :
              o.id = req[w].rec

\* C20: a refreshToken call whose token is not in the session ledger, or
\* is in it with expires_at passed, answers 401 with no token and leaves
\* the ledger as it was.
C20_RefreshFailureLeavesLedger ==
    [][\A w \in Workers :
          (Looks(w) /\ \A s \in sessions :
                          s.token = req[w].token => s.expires_at <= now) =>
             /\ req'[w].pc = "done" /\ req'[w].status = 401
             /\ req'[w].message = "Invalid or expired refresh token"
             /\ req'[w].outRefresh = NoTok
             /\ sessions' = sessions]_vars

\* C20 witness: a call with a token that is in the ledger but expired and
\* a call with a token that is not in the ledger were both answered 401.
C20_Witness ==
    \E v, w \in Workers :
        /\ req[v].op = "refreshToken" /\ req[v].pc = "done"
        /\ req[v].status = 401
        /\ \E s \in sessions : s.token = req[v].token /\ s.expires_at <= now
        /\ req[w].op = "refreshToken" /\ req[w].pc = "done"
        /\ req[w].status = 401
        /\ \A s \in sessions : s.token # req[w].token
\* ======================================================================
\* Further properties of the session ledger
\* ======================================================================
\* a logout call has just been served
LogsOut(w) ==
    /\ reqCount' = reqCount + 1
    /\ req'[w].op = "logout"
    /\ req'[w] # req[w]

\* C21: logout always answers 200; it removes the record of the presented
\* token, if there is one, and no other record, and a second logout of
\* the same token would change nothing.
C21_LogoutIdempotent ==
    [][\A w \in Workers :
          LogsOut(w) =>
             /\ req'[w].pc = "done" /\ req'[w].status = 200
             /\ sessions' = {s \in sessions : s.token # req'[w].token}
             /\ {s \in sessions' : s.token # req'[w].token} = sessions']_vars

\* C21 witness: the token of a login was logged out twice, both calls
\* answered 200, and the record of another login is still in the ledger.
C21_Witness ==
    /\ \A w \in Workers :
          /\ req[w].op = "logout" /\ req[w].pc = "done" /\ req[w].status = 200
          /\ req[w].token = RandomToken(2)
    /\ sessions # {}
    /\ \A s \in sessions : s.token # RandomToken(2)
\* ======================================================================
\* express-validator chains in front of register and login
\* ======================================================================
\* the characters of the field values used below ("" is a missing field)
Chars(s) ==
    CASE s = "" -> << >>
      [] s = "ab" -> <<"a", "b">>
      [] s = "bob" -> <<"b", "o", "b">>
      [] s = "alice" -> <<"a", "l", "i", "c", "e">>
      [] s = "invalid-email" ->
            <<"i", "n", "v", "a", "l", "i", "d", "-", "e", "m", "a", "i", "l">>
      [] s = "a@x.io" -> <<"a", "@", "x", ".", "i", "o">>
      [] s = "b@x.io" -> <<"b", "@", "x", ".", "i", "o">>
      [] s = "weak" -> <<"w", "e", "a", "k">>
      [] s = "Passw0rd1" -> <<"P", "a", "s", "s", "w", "0", "r", "d", "1">>
      [] s = "Passw0rd2" -> <<"P", "a", "s", "s", "w", "0", "r", "d", "2">>
      [] s = "12345" -> <<"1", "2", "3", "4", "5">>
      [] s = "111111" -> <<"1", "1", "1", "1", "1", "1">>
      [] s = "abcdef" -> <<"a", "b", "c", "d", "e", "f">>
      [] s = "reset-token" ->
            <<"r", "e", "s", "e", "t", "-", "t", "o", "k", "e", "n">>

LowerCase ==
    {"a", "b", "c", "d", "e", "f", "i", "k", "l", "m", "n", "o", "r", "s",
     "t", "v", "w", "x"}
UpperCase == {"P"}
Digits == {"0", "1", "2", "3", "4", "5"}

\* .isLength({min, max})
isLength(s, min, max) == Len(Chars(s)) >= min /\ Len(Chars(s)) <= max

\* .matches(/^[a-zA-Z0-9_]+$/)
matchesWord(s) ==
    /\ Chars(s) # << >>
    /\ \A i \in 1..Len(Chars(s)) :
          Chars(s)[i] \in LowerCase \cup UpperCase \cup Digits \cup {"_"}

\* .isEmail(): one @, a local part, a domain with a dot between two labels
isEmail(s) ==
    LET c == Chars(s)
        ats == {i \in 1..Len(c) : c[i] = "@"}
    IN  /\ Cardinality(ats) = 1
        /\ \E p \in ats :
              /\ p > 1
              /\ \E q \in (p + 2)..(Len(c) - 1) : c[q] = "."
              /\ \A i \in 1..Len(c) :
                    c[i] \in LowerCase \cup UpperCase \cup Digits
                               \cup {"@", ".", "-", "_"}

isStrongMutantAny(s) == TRUE

\* .isLength({min: 6}).matches(/^(?=.*[a-z])(?=.*[A-Z])(?=.*\d)/)
isStrong(s) ==
    LET c == Chars(s)
    IN  /\ Len(c) >= 6
        /\ \E i \in 1..Len(c) : c[i] \in LowerCase
        /\ \E i \in 1..Len(c) : c[i] \in UpperCase
        /\ \E i \in 1..Len(c) : c[i] \in Digits

\* registerValidation
registerValid(i) ==
    /\ isLength(i.username, 3, 50) /\ matchesWord(i.username)
    /\ isEmail(i.email)
    /\ isStrong(i.password)

\* loginValidation
loginValid(i) == isEmail(i.email) /\ Chars(i.password) # << >>

\* .matches(/^\d+$/)
matchesDigits(s) ==
    /\ Chars(s) # << >>
    /\ \A i \in 1..Len(Chars(s)) : Chars(s)[i] \in Digits

\* sendOTPValidation: username and password are optional()
sendOTPValid(i) ==
    /\ isEmail(i.email)
    /\ i.type \in Types
    /\ i.username # "" => isLength(i.username, 3, 50)
    /\ i.password # "" => isStrong(i.password)

\* verifyOTPValidation
verifyOTPValid(i) ==
    /\ isEmail(i.email)
    /\ isLength(i.otp, 6, 6) /\ matchesDigits(i.otp)
    /\ i.type \in Types

\* forgotPasswordValidation
forgotPasswordValid(i) == isEmail(i.email)

\* resetPasswordValidation
resetPasswordValid(i) == Chars(i.token) # << >> /\ isStrong(i.password)

\* the request bodies of tests/auth.test.js, and valid ones
RegisterBodies ==
    [username : {"", "ab", "bob"}, email : {"", "invalid-email", "b@x.io"},
     password : {"", "weak", "Passw0rd2"}]

LoginBodies ==
    [email : {"", "invalid-email", "a@x.io"}, password : {"", "Passw0rd1"}]

\* register: if (!errors.isEmpty()) 400 'Validation failed'
register_validation(w, In) ==
    /\ Free(w)
    /\ \E i \in In :
          /\ ~registerValid(i)
          /\ req' = [req EXCEPT ![w] =
                Respond([BlankReq EXCEPT !.op = "register",
                            !.username = i.username, !.email = i.email,
                            !.password = i.password], 400, "Validation failed")]
    /\ reqCount' = reqCount + 1
    /\ UNCHANGED <<users, otps, sessions, resetTokens, outbox, now, ticks,
                   nextUserId, nextOtpId, nextRt, nextReset, resetTokenFK,
                   quota, exchanged, revoked>>
    /\ UNCHANGED cacheVars
    /\ UNCHANGED <<envVars, tokenVars>>

\* login: if (!errors.isEmpty()) 400 'Validation failed'
login_validation(w, In) ==
    /\ Free(w)
    /\ \E i \in In :
          /\ ~loginValid(i)
          /\ req' = [req EXCEPT ![w] =
                Respond([BlankReq EXCEPT !.op = "login", !.email = i.email,
                            !.password = i.password], 400, "Validation failed")]
    /\ reqCount' = reqCount + 1
    /\ UNCHANGED <<users, otps, sessions, resetTokens, outbox, now, ticks,
                   nextUserId, nextOtpId, nextRt, nextReset, resetTokenFK,
                   quota, exchanged, revoked>>
    /\ UNCHANGED cacheVars
    /\ UNCHANGED <<envVars, tokenVars>>

SendOTPBodies ==
    [email : {"invalid-email", "b@x.io"},
     type : {"registration", "password_reset", "sms"},
     username : {"", "ab", "bob"}, password : {"", "weak", "Passw0rd2"}]

VerifyOTPBodies ==
    [email : {"invalid-email", "b@x.io"}, otp : {"", "12345", "abcdef", "111111"},
     type : {"registration", "password_reset", "sms"}]

ForgotPasswordBodies == [email : {"", "invalid-email", "a@x.io"}]

ResetPasswordBodies ==
    [token : {"", "reset-token"}, password : {"", "weak", "Passw0rd2"}]

\* sendOTP: if (!errors.isEmpty()) 400 'Validation failed'
sendOTP_validation(w, In) ==
    /\ Free(w)
    /\ \E i \in In :
          /\ ~sendOTPValid(i)
          /\ req' = [req EXCEPT ![w] =
                Respond([BlankReq EXCEPT !.op = "sendOTP", !.email = i.email,
                            !.type = i.type, !.username = i.username,
                            !.password = i.password], 400, "Validation failed")]
    /\ reqCount' = reqCount + 1
    /\ UNCHANGED <<users, otps, sessions, resetTokens, outbox, now, ticks,
                   nextUserId, nextOtpId, nextRt, nextReset, resetTokenFK,
                   quota, exchanged, revoked>>
    /\ UNCHANGED cacheVars
    /\ UNCHANGED <<envVars, tokenVars>>

\* verifyOTP: if (!errors.isEmpty()) 400 'Validation failed'
verifyOTP_validation(w, In) ==
    /\ Free(w)
    /\ \E i \in In :
          /\ ~verifyOTPValid(i)
          /\ req' = [req EXCEPT ![w] =
                Respond([BlankReq EXCEPT !.op = "verifyOTP", !.email = i.email,
                            !.type = i.type], 400, "Validation failed")]
    /\ reqCount' = reqCount + 1
    /\ UNCHANGED <<users, otps, sessions, resetTokens, outbox, now, ticks,
                   nextUserId, nextOtpId, nextRt, nextReset, resetTokenFK,
                   quota, exchanged, revoked>>
    /\ UNCHANGED cacheVars
    /\ UNCHANGED <<envVars, tokenVars>>

\* forgotPassword: if (!errors.isEmpty()) 400 'Validation failed'
forgotPassword_validation(w, In) ==
    /\ Free(w)
    /\ \E i \in In :
          /\ ~forgotPasswordValid(i)
          /\ req' = [req EXCEPT ![w] =
                Respond([BlankReq EXCEPT !.op = "forgotPassword",
                            !.email = i.email], 400, "Validation failed")]
    /\ reqCount' = reqCount + 1
    /\ UNCHANGED <<users, otps, sessions, resetTokens, outbox, now, ticks,
                   nextUserId, nextOtpId, nextRt, nextReset, resetTokenFK,
                   quota, exchanged, revoked>>
    /\ UNCHANGED cacheVars
    /\ UNCHANGED <<envVars, tokenVars>>

\* resetPassword: if (!errors.isEmpty()) 400 'Validation failed'
resetPassword_validation(w, In) ==
    /\ Free(w)
    /\ \E i \in In :
          /\ ~resetPasswordValid(i)
          /\ req' = [req EXCEPT ![w] =
                Respond([BlankReq EXCEPT !.op = "resetPassword",
                            !.password = i.password], 400, "Validation failed")]
    /\ reqCount' = reqCount + 1
    /\ UNCHANGED <<users, otps, sessions, resetTokens, outbox, now, ticks,
                   nextUserId, nextOtpId, nextRt, nextReset, resetTokenFK,
                   quota, exchanged, revoked>>
    /\ UNCHANGED cacheVars
    /\ UNCHANGED <<envVars, tokenVars>>

\* ------------------------------------------------------------------------
\* POST /register and POST /login with bodies that pass or fail the
\* validation chains.  The store holds what POST /register {alice, a@x.io,
\* Passw0rd1} followed by POST /logout leaves behind.
InitValidation ==
    /\ zone = "utc"
    /\ users = {UserRow(1, "alice", "a@x.io", Hash("Passw0rd1"), FALSE)}
    /\ otps = {}
    /\ sessions = {}
    /\ resetTokens = {}
    /\ outbox = {}
    /\ now = 0
    /\ ticks = 0
    /\ nextUserId = 2
    /\ nextOtpId = 1
    /\ nextRt = 2
    /\ nextReset = 1
    /\ resetTokenFK \in BOOLEAN
    /\ req = [w \in Workers |-> BlankReq]
    /\ reqCount = 0
    /\ quota = MaxValidationReq
    /\ exchanged = {}
    /\ revoked = {}
    /\ CacheInit
    /\ schema = "complete"
    /\ userModel = "part_012"
    /\ emailTokens = {AliceEmailToken}
    /\ nextEv = 2

NextValidation ==
    \/ \E w \in Workers : register_validation(w, RegisterBodies)
    \/ \E w \in Workers :
          Start_register(w, {i \in RegisterBodies : registerValid(i)})
    \/ \E w \in Workers : register_emailExists(w)
    \/ \E w \in Workers : register_usernameExists(w)
    \/ \E w \in Workers : register_hash(w)
    \/ \E w \in Workers : register_create(w)
    \/ \E w \in Workers : register_token(w)
    \/ \E w \in Workers : register_mail(w)
    \/ \E w \in Workers : register_issue(w)
    \/ \E w \in Workers : login_validation(w, LoginBodies)
    \/ \E w \in Workers : Start_login(w, {i \in LoginBodies : loginValid(i)})
    \/ \E w \in Workers : login_find(w)
    \/ \E w \in Workers : login_verify(w)
    \/ \E w \in Workers : login_issue(w)

SpecValidation == InitValidation /\ [][NextValidation]_vars

\* the bodies of tests/auth.test.js that break a rule
BadRegister(r) ==
    \/ r.username \in {"", "ab"}
    \/ r.email \in {"", "invalid-email"}
    \/ r.password \in {"", "weak"}

BadLogin(r) == r.email \in {"", "invalid-email"} \/ r.password = ""

BadBody(r) ==
    \/ r.op = "register" /\ BadRegister(r)
    \/ r.op = "login" /\ BadLogin(r)

\* C22: a register or login request with a missing field, a malformed
\* email or a weak password is answered 400 'Validation failed' in the
\* step that takes it: the call never reaches a storage query and the
\* credential store and the ledgers stay as they were.
C22_ValidationBeforeStorage ==
    /\ [](\A w \in Workers :
            BadBody(req[w]) =>
               /\ req[w].pc = "done" /\ req[w].status = 400
               /\ req[w].message = "Validation failed"
               /\ req[w].uid = 0 /\ req[w].outRefresh = NoTok)
    /\ [][\A w \in Workers :
            (req'[w] # req[w] /\ BadBody(req'[w])) =>
               UNCHANGED <<users, otps, sessions, resetTokens, outbox,
                           nextUserId, nextRt>>]_vars

\* C22 witness: a register request with a weak password and a login
\* request with a malformed email were both answered 400, and bob has no
\* identity.
C22_Witness ==
    \E v, w \in Workers :
        /\ req[v].op = "register" /\ req[v].password = "weak"
        /\ req[v].username = "bob" /\ req[v].email = "b@x.io"
        /\ req[v].status = 400
        /\ req[w].op = "login" /\ req[w].email = "invalid-email"
        /\ req[w].password = "Passw0rd1" /\ req[w].status = 400
        /\ users = {UserRow(1, "alice", "a@x.io", Hash("Passw0rd1"), FALSE)}
\* ======================================================================
\* middleware/cache: SimpleCache and cacheMiddleware
\* ======================================================================
ExpiredMutantInclusive(e) == DateNow - e.timestamp >= CacheTTL

\* Date.now() - entry.timestamp > this.ttl
Expired(e) == DateNow - e.timestamp > CacheTTL

\* the Map after get(key): an expired entry is deleted
getMap(c, k) ==
    IF c[k].present /\ Expired(c[k]) THEN [c EXCEPT ![k] = Absent] ELSE c

\* the value returned by get(key)
getValue(c, k) ==
    IF ~c[k].present THEN Null
    ELSE IF Expired(c[k]) THEN Null ELSE c[k].data

\* the Map after set(key, data)
setMap(c, k, d) ==
    [c EXCEPT ![k] = [data |-> d, timestamp |-> DateNow, present |-> TRUE]]

\* a call of the cache takes one unit of the budget
CacheCall ==
    /\ reqCount < quota
    /\ reqCount' = reqCount + 1

SimpleCache_set ==
    /\ CacheCall
    /\ \E k \in CacheKeys, d \in Data :
          /\ cache' = setMap(cache, k, d)
          /\ lastSet' = [lastSet EXCEPT ![k] =
                            [data |-> d, at |-> DateNow, live |-> TRUE]]
          /\ ret' = [op |-> "set", key |-> k, value |-> Null, found |-> FALSE,
                     n |-> reqCount + 1, at |-> DateNow]
    /\ UNCHANGED <<mw, now, ticks, quota>>
    /\ UNCHANGED authVars

SimpleCache_get ==
    /\ CacheCall
    /\ \E k \in CacheKeys :
          /\ cache' = getMap(cache, k)
          /\ ret' = [op |-> "get", key |-> k, value |-> getValue(cache, k),
                     found |-> FALSE, n |-> reqCount + 1, at |-> DateNow]
    /\ UNCHANGED <<lastSet, mw, now, ticks, quota>>
    /\ UNCHANGED authVars

\* has(key): this.get(key) !== null
SimpleCache_has ==
    /\ CacheCall
    /\ \E k \in CacheKeys :
          /\ cache' = getMap(cache, k)
          /\ ret' = [op |-> "has", key |-> k, value |-> Null,
                     found |-> (getValue(cache, k) # Null),
                     n |-> reqCount + 1, at |-> DateNow]
    /\ UNCHANGED <<lastSet, mw, now, ticks, quota>>
    /\ UNCHANGED authVars

SimpleCache_delete ==
    /\ CacheCall
    /\ \E k \in CacheKeys :
          /\ cache' = [cache EXCEPT ![k] = Absent]
          /\ lastSet' = [lastSet EXCEPT ![k].live = FALSE]
          /\ ret' = [op |-> "delete", key |-> k, value |-> Null,
                     found |-> FALSE,
                     n |-> reqCount + 1, at |-> DateNow]
    /\ UNCHANGED <<mw, now, ticks, quota>>
    /\ UNCHANGED authVars

SimpleCache_clear ==
    /\ CacheCall
    /\ cache' = [k \in CacheKeys |-> Absent]
    /\ lastSet' = [k \in CacheKeys |-> [lastSet[k] EXCEPT !.live = FALSE]]
    /\ ret' = [op |-> "clear", key |-> "", value |-> Null, found |-> FALSE,
                     n |-> reqCount + 1, at |-> DateNow]
    /\ UNCHANGED <<mw, now, ticks, quota>>
    /\ UNCHANGED authVars

\* setInterval(() => this.cleanExpired(), 60000)
SimpleCache_cleanExpired ==
    /\ \E k \in CacheKeys : cache[k].present /\ Expired(cache[k])
    /\ cache' = [k \in CacheKeys |->
                    IF cache[k].present /\ Expired(cache[k]) THEN Absent
                    ELSE cache[k]]
    /\ UNCHANGED <<lastSet, ret, mw, now, ticks, quota, reqCount>>
    /\ UNCHANGED authVars

CacheableMutantAny(status) == TRUE

\* if (res.statusCode === 200) weatherCache.set(key, data)
Cacheable(status) == status = 200

\* the statuses the weather handlers answer with, and the bodies they send
HandlerStatuses == {200, 400, 404, 500}
ErrorBody == "error"

\* cacheMiddleware up to next() or to the cached response
cacheMiddleware(w) ==
    /\ CacheCall
    /\ mw[w].phase # "handler"
    /\ w = "w2" => mw["w1"].phase = "handler"
    /\ \E m \in Methods, u \in Urls :
          IF m # "GET"
          THEN /\ mw' = [mw EXCEPT ![w] =
                            [BlankMw EXCEPT !.method = m, !.url = u,
                                            !.phase = "handler",
                                            !.calledNext = TRUE]]
               /\ cache' = cache
          ELSE LET k == CacheKey(u)
                   cachedData == getValue(cache, k)
               IN  /\ cache' = getMap(cache, k)
                   /\ IF cachedData # Null
                      THEN mw' = [mw EXCEPT ![w] =
                                     [BlankMw EXCEPT !.method = m, !.url = u,
                                                     !.phase = "done",
                                                     !.status = 200,
                                                     !.body = cachedData,
                                                     !.cached = TRUE]]
                      ELSE mw' = [mw EXCEPT ![w] =
                                     [BlankMw EXCEPT !.method = m, !.url = u,
                                                     !.phase = "handler",
                                                     !.calledNext = TRUE,
                                                     !.hooked = TRUE]]
    /\ UNCHANGED <<lastSet, ret, now, ticks, quota>>
    /\ UNCHANGED authVars

\* the route handler answers through res.json, overridden when hooked
handler_json(w) ==
    /\ mw[w].phase = "handler"
    /\ \E st \in HandlerStatuses, d \in Data :
          LET data == IF st = 200 THEN d ELSE ErrorBody
              k == CacheKey(mw[w].url)
          IN  /\ mw' = [mw EXCEPT ![w].phase = "done", ![w].status = st,
                                  ![w].body = data]
              /\ IF mw[w].hooked /\ Cacheable(st)
                 THEN /\ cache' = setMap(cache, k, data)
                      /\ lastSet' = [lastSet EXCEPT ![k] =
                                        [data |-> data, at |-> DateNow,
                                         live |-> TRUE]]
                 ELSE UNCHANGED <<cache, lastSet>>
    /\ UNCHANGED <<ret, now, ticks, quota, reqCount>>
    /\ UNCHANGED authVars

CacheTickSteps == {1, CacheTtlMinutes * 60}

InitCache ==
    /\ zone = "utc"
    /\ users = {}
    /\ otps = {}
    /\ sessions = {}
    /\ resetTokens = {}
    /\ outbox = {}
    /\ now = 0
    /\ ticks = 0
    /\ nextUserId = 1
    /\ nextOtpId = 1
    /\ nextRt = 1
    /\ nextReset = 1
    /\ resetTokenFK = FALSE
    /\ req = [w \in Workers |-> BlankReq]
    /\ reqCount = 0
    /\ quota = MaxCacheOps
    /\ exchanged = {}
    /\ revoked = {}
    /\ CacheInit
    /\ schema = "complete"
    /\ userModel = "part_012"
    /\ emailTokens = {}
    /\ nextEv = 1

NextCache ==
    \/ SimpleCache_set
    \/ SimpleCache_get
    \/ SimpleCache_has
    \/ SimpleCache_delete
    \/ SimpleCache_clear
    \/ SimpleCache_cleanExpired
    \/ Tick(CacheTickSteps)

SpecCache == InitCache /\ [][NextCache]_vars

\* requests through cacheMiddleware, with the periodic cleanExpired
InitMiddleware ==
    /\ zone = "utc"
    /\ users = {}
    /\ otps = {}
    /\ sessions = {}
    /\ resetTokens = {}
    /\ outbox = {}
    /\ now = 0
    /\ ticks = 0
    /\ nextUserId = 1
    /\ nextOtpId = 1
    /\ nextRt = 1
    /\ nextReset = 1
    /\ resetTokenFK = FALSE
    /\ req = [w \in Workers |-> BlankReq]
    /\ reqCount = 0
    /\ quota = MaxMwReq
    /\ exchanged = {}
    /\ revoked = {}
    /\ CacheInit
    /\ schema = "complete"
    /\ userModel = "part_012"
    /\ emailTokens = {}
    /\ nextEv = 1

NextMiddleware ==
    \/ SimpleCache_cleanExpired
    \/ \E w \in Workers : cacheMiddleware(w)
    \/ \E w \in Workers : handler_json(w)
    \/ Tick(CacheTickSteps)

SpecMiddleware == InitMiddleware /\ [][NextMiddleware]_vars

\* the value get(key) must return: the data of the most recent set of the
\* key that was neither deleted nor cleared and is at most the TTL old
Fresh(k) == lastSet[k].live /\ DateNow - lastSet[k].at <= CacheTTL

Gets == ret'.n # ret.n /\ ret'.op = "get"

Has == ret'.n # ret.n /\ ret'.op = "has"

\* C23: get(key) returns the data of the most recent set(key) when that set
\* is at most the TTL (10 minutes) old and the key was not deleted or
\* cleared since, and null otherwise; an entry found expired by get is
\* removed; has(key) is true exactly when get(key) would return non-null
C23_CacheLookup ==
    [][/\ Gets =>
            /\ ret'.value = (IF Fresh(ret'.key) THEN lastSet[ret'.key].data
                             ELSE Null)
            /\ ~Fresh(ret'.key) => ~cache'[ret'.key].present
       /\ Has =>
            /\ ret'.found = Fresh(ret'.key)
            /\ ~Fresh(ret'.key) => ~cache'[ret'.key].present]_vars

\* a get answered with the data of a set exactly the TTL old
C23_Witness ==
    /\ ret.op = "get"
    /\ ret.value \in Data
    /\ lastSet[ret.key].live
    /\ ret.value = lastSet[ret.key].data
    /\ ret.at - lastSet[ret.key].at = CacheTTL

\* the request of worker w enters cacheMiddleware
Arrives(w) == mw[w].phase # "handler" /\ mw'[w] # mw[w]

\* the route handler of worker w sends its response
Answers(w) == mw[w].phase = "handler" /\ mw'[w].phase = "done"

\* an entry of the key is stored and is at most the TTL old
Hit(k) == cache[k].present /\ DateNow - cache[k].timestamp <= CacheTTL

\* C24: cacheMiddleware passes a non-GET request on without reading or
\* writing the cache; answers a GET whose key has an unexpired entry with
\* status 200, the stored body and cached: true, without calling the route
\* handler; passes a GET miss on to the handler; and what the handler sends
\* is stored, under the key of the request, only for a GET answered with
\* status 200
C24_MiddlewareShortCircuit ==
    [][\A w \in Workers :
          LET k == CacheKey(mw'[w].url) IN
          /\ (Arrives(w) /\ mw'[w].method # "GET") =>
                /\ mw'[w].phase = "handler" /\ mw'[w].calledNext
                /\ ~mw'[w].hooked
                /\ cache' = cache
          /\ (Arrives(w) /\ mw'[w].method = "GET" /\ Hit(k)) =>
                /\ mw'[w].phase = "done" /\ mw'[w].status = 200
                /\ mw'[w].body = cache[k].data /\ mw'[w].cached
                /\ ~mw'[w].calledNext
                /\ cache' = cache
          /\ (Arrives(w) /\ mw'[w].method = "GET" /\ ~Hit(k)) =>
                /\ mw'[w].phase = "handler" /\ mw'[w].calledNext
                /\ ~cache'[k].present
          /\ Answers(w) =>
                /\ ~mw'[w].cached
                /\ IF mw[w].method = "GET" /\ mw'[w].status = 200
                   THEN cache' = [cache EXCEPT ![k] =
                                     [data |-> mw'[w].body,
                                      timestamp |-> DateNow,
                                      present |-> TRUE]]
                   ELSE cache' = cache]_vars

\* a GET answered from the cache without the handler, next to a non-GET
\* request that was passed on
C24_Witness ==
    \E w, v \in Workers :
       /\ mw[w].method = "GET" /\ mw[w].phase = "done"
       /\ mw[w].cached /\ ~mw[w].calledNext
       /\ mw[w].status = 200 /\ mw[w].body \in Data
       /\ mw[v].method = "POST" /\ mw[v].calledNext
       /\ ~cache[CacheKey(mw[v].url)].present

\* ======================================================================
\* Two identities.  The store holds what POST /register of alice and of bob
\* leaves behind, and a password_reset passcode that bob asked for; every
\* request that follows is made by alice: passcodes and reset links are
\* issued for a@x.io only, passcodes are verified for a@x.io only, and only
\* alice's refresh tokens and reset tokens are presented.  verifyOTP stores
\* its reset token for user id 0, which the foreign key of
\* password_reset_tokens refuses, so its clean-up step is never reached.
\* ======================================================================
BobRow == UserRow(2, "bob", "b@x.io", Hash("Passw0rd1"), FALSE)

BobSession == [token |-> RandomToken(2), user_id |-> 2,
               expires_at |-> SessionExpiry(0)]

\* the verification token register stored for bob
BobEmailToken ==
    [token |-> RandomEmailToken(2), user_id |-> 2,
     expires_at |-> EmailTokenExpiry(0)]

BobOtp ==
    [id |-> 1, email |-> "b@x.io", otp_code |-> 111111,
     type |-> "password_reset", username |-> "", password_hash |-> NoHash,
     is_verified |-> FALSE, expires_at |-> ExpiresIn, created_at |-> 0]

InitTwoUsers ==
    /\ zone \in Zones
    /\ users = {UserRow(1, "alice", "a@x.io", Hash("Passw0rd1"), FALSE),
                BobRow}
    /\ otps = {BobOtp}
    /\ sessions = {[token |-> RandomToken(1), user_id |-> 1,
                    expires_at |-> SessionExpiry(0)], BobSession}
    /\ resetTokens = {}
    /\ outbox = {[email |-> "b@x.io", type |-> "password_reset",
                  otp |-> 111111, id |-> 1]}
    /\ now = 0
    /\ ticks = 0
    /\ nextUserId = 3
    /\ nextOtpId = 2
    /\ nextRt = 3
    /\ nextReset = 1
    \* password_reset_tokens.user_id REFERENCES users(id)
    /\ resetTokenFK = TRUE
    /\ req = [w \in Workers |-> BlankReq]
    /\ reqCount = 0
    /\ quota = MaxTwoUserReq
    /\ exchanged = {}
    /\ revoked = {}
    /\ CacheInit
    /\ schema = "complete"
    /\ userModel \in UserModels
    /\ emailTokens = {AliceEmailToken, BobEmailToken}
    /\ nextEv = 3

\* only the password_reset branch of sendOTP is taken, which hashes no
\* password
AliceSendInputs ==
    {[email |-> "a@x.io", type |-> "password_reset", username |-> "",
      password |-> ""]}

AliceVerifyInputs ==
    {[email |-> "a@x.io", type |-> "password_reset", otp |-> c,
      password |-> ""] : c \in Codes}

\* the refresh tokens handed to alice
AliceTokens == {RandomToken(n) : n \in 1..(nextRt - 1)} \ {BobSession.token}

\* the email sent along with the reset token is the caller's choice
TwoUserResetBodies ==
    {[password |-> "Passw0rd2", email |-> e] : e \in {"a@x.io", "b@x.io"}}

NextTwoUsers ==
    \/ \E w \in Workers : Start_sendOTP(w, AliceSendInputs)
    \/ \E w \in Workers : sendOTP_check(w)
    \/ \E w \in Workers : sendOTP_store(w)
    \/ \E w \in Workers : sendOTP_user(w)
    \/ \E w \in Workers : sendOTP_mail(w)
    \/ \E w \in Workers : Start_verifyOTP(w, AliceVerifyInputs)
    \/ \E w \in Workers : verifyOTP_select(w)
    \/ \E w \in Workers : verifyOTP_update(w)
    \/ \E w \in Workers : verifyOTP_resetToken(w)
    \/ \E w \in Workers : Start_forgotPassword(w, {"a@x.io"})
    \/ \E w \in Workers : forgotPassword_find(w)
    \/ \E w \in Workers : forgotPassword_create(w)
    \/ \E w \in Workers : forgotPassword_mail(w)
    \/ \E w \in Workers : Start_refreshToken(w, AliceTokens)
    \/ \E w \in Workers : refreshToken_find(w)
    \/ \E w \in Workers : refreshToken_user(w)
    \/ \E w \in Workers : refreshToken_delete(w)
    \/ \E w \in Workers : refreshToken_issue(w)
    \/ \E w \in Workers : logout(w, AliceTokens)
    \/ \E w \in Workers : Start_resetPasswordWithToken(w, TwoUserResetBodies)
    \/ \E w \in Workers : resetPasswordWithToken_find(w)
    \/ \E w \in Workers : resetPasswordWithToken_user(w)
    \/ \E w \in Workers : resetPasswordWithToken_update(w)
    \/ \E w \in Workers : resetPasswordWithToken_mark(w)
    \/ \E w \in Workers : resetPasswordWithToken_revoke(w)

SpecTwoUsers == InitTwoUsers /\ [][NextTwoUsers]_vars

\* the caller has verified a password_reset passcode for a@x.io
AliceVerified ==
    \E r \in otps :
       r.email = "a@x.io" /\ r.type = "password_reset" /\ r.is_verified

\* C25: the OTP reset flow changes a password only for the identity whose
\* email the password_reset passcode was verified for: while passcodes are
\* verified for a@x.io only and reset tokens are issued for a@x.io only, a
\* caller who has verified a passcode for a@x.io finds the password hash
\* and the session record of b@x.io as they were, whatever
\* resetPasswordWithToken calls were made
C25_ResetOnlyForVerifiedEmail ==
    AliceVerified =>
       /\ BobRow \in users
       /\ BobSession \in sessions

\* ======================================================================
\* Properties of the reset tokens and of the sessions around a reset
\* ======================================================================
\* the reset call of worker w has replaced a password hash
Changed(w) ==
    /\ req[w].op \in {"resetPassword", "resetPasswordWithToken"}
    /\ \/ req[w].pc \in {"resetPassword_mark", "resetPassword_revoke",
                         "resetPasswordWithToken_mark",
                         "resetPasswordWithToken_revoke"}
       \/ req[w].pc = "done" /\ req[w].status = 200

\* C26: a password reset token is used only once: no two resetPassword /
\* resetPasswordWithToken calls presenting the same token both change a
\* password, whether one follows the other or both run between the lookup
\* of the token and markPasswordResetTokenAsUsed
C26_ResetTokenSingleUse ==
    \A w, v \in Workers :
       (w # v /\ Changed(w) /\ Changed(v)) => req[w].token # req[v].token

\* C27: no session survives a password reset through a refresh in flight:
\* once the calls have finished, the ledger holds no session record that a
\* refreshToken call issued in exchange for a token removed by the reset
C27_NoSessionSurvivesReset ==
    (\A w \in Workers : ~Busy(w)) =>
       \A s \in sessions :
          ~\E x \in exchanged : x[2] = s.token /\ x[1] \in revoked

\* the refreshToken call of worker w has just run deleteByToken
Deletes(w) ==
    /\ req[w].pc = "refreshToken_delete"
    /\ req'[w].pc = "refreshToken_issue"

\* C28: a successful rotation replaces one record by one record of the
\* same owner: its deleteByToken removes the record of the presented token
\* and nothing else; when it answers 200 the presented token is absent,
\* exactly one record was added, owned by the identity found and holding
\* the returned token, it is the only record ever issued in exchange for
\* the presented token (so the owner's number of records is unchanged), the
\* returned access token asserts that identity, and no other record changes
C28_RotationReplacesOneRecord ==
    [][\A w \in Workers :
          /\ Deletes(w) =>
                sessions' = {s \in sessions : s.token # req[w].token}
          /\ Rotates(w) =>
                /\ \A s \in sessions' : s.token # req[w].token
                /\ \E s \in sessions' \ sessions :
                      /\ sessions' = sessions \cup {s}
                      /\ s.user_id = req[w].uid
                      /\ s.token = req'[w].outRefresh
                      /\ {x \in exchanged' : x[1] = req[w].token}
                            = {<<req[w].token, s.token>>}
                /\ req'[w].outUser = req[w].uid]_vars

\* ======================================================================
\* The periodic sweeps.  The store holds what POST /register {alice,
\* a@x.io, Passw0rd1} leaves behind; alice asks for password_reset
\* passcodes, verifies them and refreshes her session while time passes and
\* the two deleteExpired sweeps run at any point.
\* ======================================================================
InitSweep ==
    /\ zone = "utc"
    /\ users = {UserRow(1, "alice", "a@x.io", Hash("Passw0rd1"), FALSE)}
    /\ otps = {}
    /\ sessions = {[token |-> RandomToken(1), user_id |-> 1,
                    expires_at |-> SessionExpiry(0)]}
    /\ resetTokens = {}
    /\ outbox = {}
    /\ now = 0
    /\ ticks = 0
    /\ nextUserId = 2
    /\ nextOtpId = 1
    /\ nextRt = 2
    /\ nextReset = 1
    /\ resetTokenFK = FALSE
    /\ req = [w \in Workers |-> BlankReq]
    /\ reqCount = 0
    /\ quota = MaxSweepReq
    /\ exchanged = {}
    /\ revoked = {}
    /\ CacheInit
    /\ schema = "complete"
    /\ userModel = "part_012"
    /\ emailTokens = {AliceEmailToken}
    /\ nextEv = 2

\* a second, the expiry instant of a passcode, a second later, when the
\* sweep removes the record, and a second after the expiry instant of a
\* session
SweepTickSteps == {1, ExpiresIn, ExpiresIn + 1, RefreshTTL + 1}

NextSweep ==
    \/ \E w \in Workers : Start_sendOTP(w, AliceSendInputs)
    \/ \E w \in Workers : sendOTP_check(w)
    \/ \E w \in Workers : sendOTP_store(w)
    \/ \E w \in Workers : sendOTP_user(w)
    \/ \E w \in Workers : sendOTP_mail(w)
    \/ \E w \in Workers : Start_verifyOTP(w, AliceVerifyInputs)
    \/ \E w \in Workers : verifyOTP_select(w)
    \/ \E w \in Workers : verifyOTP_update(w)
    \/ \E w \in Workers : verifyOTP_resetToken(w)
    \/ \E w \in Workers : verifyOTP_resetCleanup(w)
    \/ \E w \in Workers : Start_refreshToken(w, TokenInputs)
    \/ \E w \in Workers : refreshToken_find(w)
    \/ \E w \in Workers : refreshToken_user(w)
    \/ \E w \in Workers : refreshToken_delete(w)
    \/ \E w \in Workers : refreshToken_issue(w)
    \/ OTP_deleteExpired
    \/ RefreshToken_deleteExpired
    \/ TickUpTo(SweepTickSteps, MaxScenarioTicks)

SpecSweep == InitSweep /\ [][NextSweep]_vars

\* a sweep has just removed passcode records: no handler moved
SweepsOtps == req' = req /\ otps' # otps

\* a sweep has just removed session records: no handler moved
SweepsSessions == req' = req /\ sessions' # sessions

\* C29: the periodic sweep is not correctness-critical: a deleteExpired
\* run removes only records whose expires_at has passed, and leaves the
\* result of OTPModel.verify for every (email, code, type) and of
\* findByToken for every token as it was, so no verify or refreshToken call
\* is answered differently because a sweep ran
C29_SweepNotCritical ==
    [][/\ SweepsOtps =>
            /\ otps' \subseteq otps
            /\ \A r \in otps \ otps' : r.expires_at <= now
            /\ \A e \in Emails, c \in Codes, t \in Types :
                  OtpLatest(e, c, t)' = OtpLatest(e, c, t)
       /\ SweepsSessions =>
            /\ sessions' \subseteq sessions
            /\ \A s \in sessions \ sessions' : s.expires_at <= now
            /\ \A s \in sessions :
                  findByToken(s.token)' = findByToken(s.token)]_vars

\* both sweeps have removed an expired record: a passcode that was sent is
\* gone though no verification cleaned up, and alice's session is gone
\* though no refreshToken call presented it; a later verify was turned away
C29_Witness ==
    /\ \E m \in outbox : \A r \in otps : r.id # m.id
    /\ resetTokens = {}
    /\ sessions = {}
    /\ exchanged = {}
    /\ \A w \in Workers : req[w].op # "refreshToken"
    /\ \E w \in Workers :
          /\ req[w].op = "verifyOTP" /\ req[w].pc = "done"
          /\ req[w].status = 400
          /\ \E m \in outbox : m.otp = req[w].otp

\* ======================================================================
\* Frame of the flows of one user (two identities)
\* ======================================================================
\* the request is one of alice's: the codes, refresh tokens and reset
\* tokens it presents were handed to alice, never to bob
ByAlice(r) == r.op # "idle" /\ r.token # BobSession.token

\* bob's passcode records, session records and user row
BobLedger ==
    <<{r \in otps : r.email = "b@x.io"},
      {s \in sessions : s.user_id = 2},
      {u \in users : u.email = "b@x.io"}>>

\* C30: the flows of one user do not affect another user's ledger state:
\* every step of a sendOTP, verifyOTP (accepted or turned away), logout,
\* refreshToken or password reset that alice performs with her own codes
\* and tokens leaves the passcode records, the session records and the
\* password hash of b@x.io unchanged
C30_OtherUserUntouched ==
    [][\A w \in Workers :
          (req'[w] # req[w] /\ ByAlice(req'[w])) => BobLedger' = BobLedger]_vars

\* ======================================================================
\* The whole server
\* ======================================================================
\* the process after start-up, on any of the databases, nothing in flight
Init ==
    /\ users = {}
    /\ otps = {}
    /\ sessions = {}
    /\ resetTokens = {}
    /\ outbox = {}
    /\ now = 0
    /\ ticks = 0
    /\ nextUserId = 1
    /\ nextOtpId = 1
    /\ nextRt = 1
    /\ nextReset = 1
    /\ SchemaInit
    /\ req = [w \in Workers |-> BlankReq]
    /\ reqCount = 0
    /\ quota = MaxReq
    /\ exchanged = {}
    /\ revoked = {}
    /\ CacheInit
    /\ emailTokens = {}
    /\ nextEv = 1

\* POST /send-otp and POST /verify-otp of routes/auth.routes.ts
NextOtpRoutes ==
    \/ \E w \in Workers : sendOTP_validation(w, SendOTPBodies)
    \/ \E w \in Workers : Start_sendOTP(w, SendOTPInputs)
    \/ \E w \in Workers : sendOTP_check(w)
    \/ \E w \in Workers : sendOTP_hash(w)
    \/ \E w \in Workers : sendOTP_store(w)
    \/ \E w \in Workers : sendOTP_user(w)
    \/ \E w \in Workers : sendOTP_mail(w)
    \/ \E w \in Workers : verifyOTP_validation(w, VerifyOTPBodies)
    \/ \E w \in Workers : Start_verifyOTP(w, VerifyOTPInputs)
    \/ \E w \in Workers : verifyOTP_select(w)
    \/ \E w \in Workers : verifyOTP_update(w)
    \/ \E w \in Workers : verifyOTP_regSelect(w)
    \/ \E w \in Workers : verifyOTP_regUpdate(w)
    \/ \E w \in Workers : verifyOTP_createUser(w)
    \/ \E w \in Workers : verifyOTP_cleanup(w)
    \/ \E w \in Workers : verifyOTP_resetToken(w)
    \/ \E w \in Workers : verifyOTP_resetCleanup(w)

\* the routes both routers mount
NextAccountRoutes ==
    \/ \E w \in Workers : register_validation(w, RegisterBodies)
    \/ \E w \in Workers : Start_register(w, RegisterInputs)
    \/ \E w \in Workers : register_emailExists(w)
    \/ \E w \in Workers : register_usernameExists(w)
    \/ \E w \in Workers : register_hash(w)
    \/ \E w \in Workers : register_create(w)
    \/ \E w \in Workers : register_token(w)
    \/ \E w \in Workers : register_mail(w)
    \/ \E w \in Workers : register_issue(w)
    \/ \E w \in Workers : login_validation(w, LoginBodies)
    \/ \E w \in Workers : Start_login(w, LoginInputs)
    \/ \E w \in Workers : login_find(w)
    \/ \E w \in Workers : login_verify(w)
    \/ \E w \in Workers : login_issue(w)
    \/ \E w \in Workers : Start_refreshToken(w, TokenInputs)
    \/ \E w \in Workers : refreshToken_find(w)
    \/ \E w \in Workers : refreshToken_user(w)
    \/ \E w \in Workers : refreshToken_delete(w)
    \/ \E w \in Workers : refreshToken_issue(w)
    \/ \E w \in Workers : logout(w, TokenInputs)
    \/ \E w \in Workers : getProfile(w, UserIdInputs)
    \/ \E w \in Workers : Start_verifyEmail(w, EmailTokenInputs)
    \/ \E w \in Workers : verifyEmail_find(w)
    \/ \E w \in Workers : verifyEmail_verify(w)
    \/ \E w \in Workers : verifyEmail_delete(w)
    \/ \E w \in Workers : verifyEmail_user(w)
    \/ \E w \in Workers : verifyEmail_mail(w)
    \/ \E w \in Workers : Start_resendVerification(w, UserIdInputs)
    \/ \E w \in Workers : resendVerification_find(w)
    \/ \E w \in Workers : resendVerification_token(w)
    \/ \E w \in Workers : resendVerification_mail(w)

\* POST /forgot-password and POST /reset-password, which only the router
\* without the OTP routes mounts
NextResetRoutes ==
    \/ \E w \in Workers : forgotPassword_validation(w, ForgotPasswordBodies)
    \/ \E w \in Workers : Start_forgotPassword(w, Emails)
    \/ \E w \in Workers : forgotPassword_find(w)
    \/ \E w \in Workers : forgotPassword_create(w)
    \/ \E w \in Workers : forgotPassword_mail(w)
    \/ \E w \in Workers : resetPassword_validation(w, ResetPasswordBodies)
    \/ \E w \in Workers : Start_resetPassword(w, Passwords)
    \/ \E w \in Workers : resetPassword_find(w)
    \/ \E w \in Workers : resetPassword_update(w)
    \/ \E w \in Workers : resetPassword_mark(w)
    \/ \E w \in Workers : resetPassword_revoke(w)

\* the weather routes behind cacheMiddleware, and the two timers: the OTP
\* sweep of server.ts and the cache sweep of the SimpleCache constructor
NextBackground ==
    \/ \E w \in Workers : cacheMiddleware(w)
    \/ \E w \in Workers : handler_json(w)
    \/ SimpleCache_cleanExpired
    \/ OTP_deleteExpired
    \/ Tick(TickSteps)

\* every step the running server takes
Next ==
    \/ NextOtpRoutes
    \/ NextAccountRoutes
    \/ NextResetRoutes
    \/ NextBackground

Spec == Init /\ [][Next]_vars

\* What is exported and mounted or scheduled nowhere: the handler
\* resetPasswordWithToken, RefreshTokenModel.deleteExpired and
\* TokenModel.deletePasswordResetTokensByUserId.  They run only when another
\* module, a script or a test calls them.
NextExported ==
    \/ \E w \in Workers : Start_resetPasswordWithToken(w, ResetWithTokenInputs)
    \/ \E w \in Workers : resetPasswordWithToken_find(w)
    \/ \E w \in Workers : resetPasswordWithToken_user(w)
    \/ \E w \in Workers : resetPasswordWithToken_update(w)
    \/ \E w \in Workers : resetPasswordWithToken_mark(w)
    \/ \E w \in Workers : resetPasswordWithToken_revoke(w)
    \/ RefreshToken_deleteExpired
    \/ TokenModel_deletePasswordResetTokensByUserId(UserIdInputs \cup {0})

SpecExported == Init /\ [][Next \/ NextExported]_vars
\* ======================================================================
\* Scenarios that start from a ledger with records already issued
\* ======================================================================
\* The passcode endpoints after POST /send-otp {a@x.io, password_reset}
\* and POST /send-otp {b@x.io, registration, bob, Passw0rd2} have answered
\* at time 0, both having drawn 111111 and both mails delivered.
InitVerify ==
    /\ zone = "utc"
    /\ userModel \in UserModels
    /\ users = {UserRow(1, "alice", "a@x.io", Hash("Passw0rd1"), FALSE)}
    /\ otps = {[id |-> 1, email |-> "a@x.io", otp_code |-> 111111,
                type |-> "password_reset", username |-> "",
                password_hash |-> NoHash, is_verified |-> FALSE,
                expires_at |-> ExpiresIn, created_at |-> 0],
               [id |-> 2, email |-> "b@x.io", otp_code |-> 111111,
                type |-> "registration", username |-> "bob",
                password_hash |-> Hash("Passw0rd2"), is_verified |-> FALSE,
                expires_at |-> ExpiresIn, created_at |-> 0]}
    /\ sessions = {}
    /\ resetTokens = {}
    /\ outbox = {[email |-> "a@x.io", type |-> "password_reset",
                  otp |-> 111111, id |-> 1],
                 [email |-> "b@x.io", type |-> "registration",
                  otp |-> 111111, id |-> 2]}
    /\ now = 1
    /\ ticks = 0
    /\ nextUserId = 2
    /\ nextOtpId = 3
    /\ nextRt = 2
    /\ nextReset = 1
    /\ resetTokenFK = (userModel = "part_012")
    /\ req = [w \in Workers |-> BlankReq]
    /\ reqCount = 0
    /\ quota = MaxVerifyReq
    /\ exchanged = {}
    /\ revoked = {}
    /\ CacheInit
    /\ schema = "complete"
    /\ emailTokens = {AliceEmailToken}
    /\ nextEv = 2

\* the codes in the ledger were issued a second ago; the clock moves by the
\* lifetime of a passcode, to a second after their expiry instant, when the
\* sweep removes them, and to the expiry instant of a record issued now
VerifyTickSteps == {ExpiresIn}

NextVerify ==
    \/ \E w \in Workers : Start_sendOTP(w, OtpSendInputs)
    \/ \E w \in Workers : sendOTP_check(w)
    \/ \E w \in Workers : sendOTP_hash(w)
    \/ \E w \in Workers : sendOTP_store(w)
    \/ \E w \in Workers : sendOTP_user(w)
    \/ \E w \in Workers : sendOTP_mail(w)
    \/ \E w \in Workers : Start_verifyOTP(w, OtpVerifyInputs)
    \/ \E w \in Workers : verifyOTP_select(w)
    \/ \E w \in Workers : verifyOTP_update(w)
    \/ \E w \in Workers : verifyOTP_regSelect(w)
    \/ \E w \in Workers : verifyOTP_regUpdate(w)
    \/ \E w \in Workers : verifyOTP_createUser(w)
    \/ \E w \in Workers : verifyOTP_cleanup(w)
    \/ \E w \in Workers : verifyOTP_resetToken(w)
    \/ \E w \in Workers : verifyOTP_resetCleanup(w)
    \/ OTP_deleteExpired
    \/ TickUpTo(VerifyTickSteps, MaxScenarioTicks)

SpecVerify == InitVerify /\ [][NextVerify]_vars

\* The password-reset endpoints with login and refresh after POST /register
\* {alice, a@x.io, Passw0rd1}, POST /login {a@x.io, Passw0rd1} and POST
\* /forgot-password {a@x.io} have answered at time 0: alice holds two
\* sessions and one reset link.
InitReset ==
    /\ zone \in Zones
    /\ users = {UserRow(1, "alice", "a@x.io", Hash("Passw0rd1"), FALSE)}
    /\ otps = {}
    /\ sessions = {[token |-> RandomToken(1), user_id |-> 1,
                    expires_at |-> SessionExpiry(0)],
                   [token |-> RandomToken(2), user_id |-> 1,
                    expires_at |-> SessionExpiry(0)]}
    /\ resetTokens = {[token |-> RandomResetToken(1), user_id |-> 1,
                       expires_at |-> ResetExpiry(0), used |-> FALSE]}
    /\ outbox = {}
    /\ now = 0
    /\ ticks = 0
    /\ nextUserId = 2
    /\ nextOtpId = 1
    /\ nextRt = 3
    /\ nextReset = 2
    /\ resetTokenFK \in BOOLEAN
    /\ req = [w \in Workers |-> BlankReq]
    /\ reqCount = 0
    /\ quota = MaxResetReq
    /\ exchanged = {}
    /\ revoked = {}
    /\ CacheInit
    /\ schema = "complete"
    /\ userModel \in UserModels
    /\ emailTokens = {AliceEmailToken}
    /\ nextEv = 2

SpecReset == InitReset /\ [][NextReset]_vars

\* Every endpoint that answers with a refresh token, after POST /register
\* {alice, a@x.io, Passw0rd1}, POST /logout and two POST /send-otp {b@x.io,
\* registration, bob, Passw0rd2} that both drew 111111 have answered at
\* time 0.
InitIssue ==
    /\ zone \in Zones
    /\ users = {UserRow(1, "alice", "a@x.io", Hash("Passw0rd1"), FALSE)}
    /\ otps = {[id |-> n, email |-> "b@x.io", otp_code |-> 111111,
                type |-> "registration", username |-> "bob",
                password_hash |-> Hash("Passw0rd2"), is_verified |-> FALSE,
                expires_at |-> ExpiresIn, created_at |-> 0] : n \in 1..2}
    /\ sessions = {}
    /\ resetTokens = {}
    /\ outbox = {[email |-> "b@x.io", type |-> "registration",
                  otp |-> 111111, id |-> n] : n \in 1..2}
    /\ now = 0
    /\ ticks = 0
    /\ nextUserId = 2
    /\ nextOtpId = 3
    /\ nextRt = 2
    /\ nextReset = 1
    /\ resetTokenFK \in BOOLEAN
    /\ req = [w \in Workers |-> BlankReq]
    /\ reqCount = 0
    /\ quota = MaxIssueReq
    /\ exchanged = {}
    /\ revoked = {}
    /\ CacheInit
    /\ schema = "complete"
    /\ userModel \in UserModels
    /\ emailTokens = {AliceEmailToken}
    /\ nextEv = 2

NextIssue ==
    \/ \E w \in Workers : Start_login(w, ResetLoginInputs)
    \/ \E w \in Workers : login_find(w)
    \/ \E w \in Workers : login_verify(w)
    \/ \E w \in Workers : login_issue(w)
    \/ \E w \in Workers : Start_refreshToken(w, TokenInputs)
    \/ \E w \in Workers : refreshToken_find(w)
    \/ \E w \in Workers : refreshToken_user(w)
    \/ \E w \in Workers : refreshToken_delete(w)
    \/ \E w \in Workers : refreshToken_issue(w)
    \/ \E w \in Workers : Start_register(w, RaceRegisterInputs)
    \/ \E w \in Workers : register_emailExists(w)
    \/ \E w \in Workers : register_usernameExists(w)
    \/ \E w \in Workers : register_hash(w)
    \/ \E w \in Workers : register_create(w)
    \/ \E w \in Workers : register_token(w)
    \/ \E w \in Workers : register_mail(w)
    \/ \E w \in Workers : register_issue(w)
    \/ \E w \in Workers : Start_verifyOTP(w, RaceVerifyInputs)
    \/ \E w \in Workers : verifyOTP_select(w)
    \/ \E w \in Workers : verifyOTP_update(w)
    \/ \E w \in Workers : verifyOTP_regSelect(w)
    \/ \E w \in Workers : verifyOTP_regUpdate(w)
    \/ \E w \in Workers : verifyOTP_createUser(w)
    \/ \E w \in Workers : verifyOTP_cleanup(w)

SpecIssue == InitIssue /\ [][NextIssue]_vars

====
